---- MODULE Spec2Model ----
(***************************************************************************)
(* Model of charm_refresh/_main.py (Kubernetes variant): one Juju event    *)
(* on one unit constructs _Kubernetes, which reads the StatefulSet and the *)
(* peer relation, runs _start_refresh and _set_partition_and_app_status.   *)
(* The StatefulSet controller, Juju and the operator are the environment.  *)
(***************************************************************************)
EXTENDS Integers, Sequences, FiniteSets, TLC

\* ------------------------------------------------------------------ bounds
NumUnits == 3          \* units deployed at the start (ordinals 0..NumUnits-1)
MaxRev == 3            \* controller revisions 1..MaxRev (MaxRev-1 juju refreshes)
MaxRestarts == 2       \* pod deletions outside the rolling update in RestartSpec
MaxValues == 3         \* longest collection handed to max() on its own
MaxDisturbances == 1   \* operator and cluster actions during one refresh: a
                       \* second `juju refresh`, pod restarts outside the rolling
                       \* update, scale-downs and config changes, counted together

Ordinals == 0 .. (NumUnits - 1)
Revs == 1 .. MaxRev
NoRev == 0             \* databag key absent / no revision
None == "None"

\* ------------------------------------------------------------ CharmVersion
\* A version string "<track>/<a>.<b>.<c><suffix>" is kept as its parts.
VersionString(track, rel, suffix) == [track |-> track, rel |-> rel, suffix |-> suffix]

\* CharmVersion.__init__: 3 release components required; released iff the
\* string equals its base version (no pre/post/dev/local part).
CharmVersion(s) ==
    [ valid    |-> Len(s.rel) = 3,
      version  |-> s,
      track    |-> s.track,
      rel      |-> s.rel,
      released |-> s.suffix = "",
      major    |-> IF Len(s.rel) >= 1 THEN s.rel[1] ELSE 0 ]

\* variant: str() gives the track and the base version only
CharmVersionStrBase(cv) == [cv.version EXCEPT !.suffix = ""]

\* CharmVersion.__str__
CharmVersionStr(cv) == cv.version

\* CharmVersion.__eq__ (both CharmVersion): compares the version strings
CharmVersionEq(a, b) == a.version = b.version

\* packaging.version ordering restricted to release + one suffix:
\* ".dev0" sorts before the release, ".post1" after it; "-1" is another
\* spelling of ".post1" and parses to the same packaging.version.Version
SuffixRank(sfx) == IF sfx = ".dev0" THEN 0 ELSE IF sfx = "" THEN 1 ELSE 2

RelGt(a, b) ==
    \/ a[1] > b[1]
    \/ a[1] = b[1] /\ a[2] > b[2]
    \/ a[1] = b[1] /\ a[2] = b[2] /\ a[3] > b[3]

\* CharmVersion.__gt__ (same track; different tracks raise ValueError)
CharmVersionGt(a, b) ==
    \/ RelGt(a.rel, b.rel)
    \/ a.rel = b.rel /\ SuffixRank(a.version.suffix) > SuffixRank(b.version.suffix)

\* functools.total_ordering: a >= b is (a > b or a == b)
CharmVersionGe(a, b) == CharmVersionGt(a, b) \/ CharmVersionEq(a, b)

\* functools.total_ordering: a < b is (not a > b and a != b)
CharmVersionLt(a, b) == ~CharmVersionGt(a, b) /\ ~CharmVersionEq(a, b)

\* functools.total_ordering: a <= b is (not a > b)
CharmVersionLe(a, b) == ~CharmVersionGt(a, b)

\* an ordering comparison as the caller sees it: __gt__ raises ValueError for
\* different tracks, and every derived operator calls __gt__ first
Ordering(a, b, holds) ==
    IF a.track # b.track THEN "ValueError" ELSE IF holds THEN "True" ELSE "False"

\* CharmSpecific._is_charm_version_compatible as its caller sees it: the
\* comparison new >= old raises ValueError when the tracks differ
IsCharmVersionCompatibleCall(old, new) ==
    IF ~(old.released /\ new.released) THEN "False"
    ELSE IF old.major # new.major THEN "False"
    ELSE Ordering(new, old, CharmVersionGe(new, old))

\* CharmSpecific.is_compatible (the base implementation) as its caller sees
\* it: the exception of _is_charm_version_compatible is not caught
IsCompatibleCall(oldCharm, newCharm, oldWorkload, newWorkload) ==
    IF IsCharmVersionCompatibleCall(oldCharm, newCharm) = "ValueError" THEN "ValueError"
    ELSE IF IsCharmVersionCompatibleCall(oldCharm, newCharm) # "True" THEN "False"
    ELSE "True"

\* CharmSpecific._is_charm_version_compatible for versions of one track (every
\* revision of BundleTable below is on the same track)
IsCharmVersionCompatible(old, new) ==
    IF ~(old.released /\ new.released) THEN FALSE
    ELSE IF old.major # new.major THEN FALSE
    ELSE CharmVersionGe(new, old)

\* CharmSpecific.is_compatible (the base implementation)
IsCompatible(oldCharm, newCharm, oldWorkload, newWorkload) ==
    IF ~IsCharmVersionCompatible(oldCharm, newCharm) THEN FALSE ELSE TRUE

\* ------------------------------------------------- what a revision installs
\* Each controller revision is one pod template: charm code (with its
\* refresh_versions.toml, metadata.yaml pin and .juju-charm) plus the OCI
\* resource the operator passed to `juju refresh`.
Bundles == {"v1", "v2", "v2x", "v3"}

BundleTable ==
    [ v1  |-> [charm |-> VersionString("14", <<1, 0, 0>>, ""), workload |-> "w1",
               pinned_container |-> "sha256:d1", container |-> "sha256:d1",
               charm_revision |-> "ch:amd64/jammy/app-k8s-1"],
      v2  |-> [charm |-> VersionString("14", <<1, 1, 0>>, ""), workload |-> "w2",
               pinned_container |-> "sha256:d2", container |-> "sha256:d2",
               charm_revision |-> "ch:amd64/jammy/app-k8s-2"],
      v2x |-> [charm |-> VersionString("14", <<1, 1, 0>>, ""), workload |-> "w2",
               pinned_container |-> "sha256:d2", container |-> "sha256:d1",
               charm_revision |-> "ch:amd64/jammy/app-k8s-2"],
      v3  |-> [charm |-> VersionString("14", <<2, 0, 0>>, ""), workload |-> "w3",
               pinned_container |-> "sha256:d3", container |-> "sha256:d3",
               charm_revision |-> "ch:amd64/jammy/app-k8s-3"] ]

\* ------------------------------------------------------------- _PauseAfter
ConfigValues == {"none", "first", "all", "bogus"}

\* _PauseAfter(value) with _missing_: unrecognized values become UNKNOWN
PauseAfter(value) ==
    IF value \in {"none", "first", "all", "unknown"} THEN value ELSE "unknown"

\* variant: UNKNOWN has the lowest priority
PausePriorityUnknownLowest(p) ==
    IF p = "none" THEN 1 ELSE IF p = "first" THEN 2 ELSE IF p = "all" THEN 3 ELSE 0

\* priorities in _PauseAfter.__gt__
PausePriority(p) ==
    IF p = "none" THEN 0 ELSE IF p = "first" THEN 1 ELSE IF p = "all" THEN 2 ELSE 3

PauseGt(a, b) == PausePriority(a) > PausePriority(b)

\* the builtin max() over a non-empty sequence: the first item is kept until
\* a later item compares greater (__gt__) than the one kept
RECURSIVE PauseMaxFrom(_, _, _)
PauseMaxFrom(seq, i, kept) ==
    IF i > Len(seq) THEN kept
    ELSE PauseMaxFrom(seq, i + 1, IF PauseGt(seq[i], kept) THEN seq[i] ELSE kept)

PauseMaxSeq(seq) == PauseMaxFrom(seq, 2, seq[1])

\* max() over a non-empty set of _PauseAfter values
PauseMax(S) == CHOOSE p \in S : \A q \in S : ~PauseGt(q, p)

\* ---------------------------------------------------------------- state
VARIABLES
    partition,      \* StatefulSet spec.updateStrategy.rollingUpdate.partition
    appRev,         \* StatefulSet status.updateRevision
    currentRev,     \* StatefulSet status.currentRevision
    revBundle,      \* what each controller revision installs
    pod,            \* per ordinal: "up", "down" (being replaced) or "gone"
    podRev,         \* per ordinal: controller-revision-hash label of the pod
    replicas,       \* StatefulSet spec.replicas
    leader,         \* ordinal of the Juju leader unit
    config,         \* pause_after_unit_refresh config option
    dbPause,        \* unit databag: pause_after_unit_refresh_config
    dbNext,         \* unit databag: next_unit_allowed_to_refresh_if_..._equals
    dbStarted,      \* unit databag: refresh_started_if_..._hash_in
    appDb,          \* app databag: the four original_* keys (present or not)
    localStarted,   \* local file kubernetes_refresh_started
    tearingDown,    \* local file kubernetes_unit_tearing_down
    restarts,       \* pod restarts outside the rolling update so far
    configChanges,  \* config changes so far
    trusted,        \* whether the access review allows patching the StatefulSet
    call,           \* a library function applied on its own: name, arguments, result
    running         \* per unit: the invocation whose API calls are taken one by one

vars == << partition, appRev, currentRev, revBundle, pod, podRev, replicas, leader,
           config, dbPause, dbNext, dbStarted, appDb, localStarted, tearingDown,
           restarts, configChanges, trusted, call, running >>

envVars == << appRev, currentRev, revBundle, pod, podRev, replicas, leader,
              config, restarts, configChanges, trusted, call, running >>

\* no library function is being applied on its own
NoCall == [fn |-> "none"]

\* no invocation of the unit is between two of its API calls
Idle == [ pc |-> "idle", kind |-> "none", seen |-> -1, raised |-> FALSE,
          in_progress |-> FALSE, target |-> -1, since |-> {},
          writes |-> << >> ]

\* pods listed by lightkube (label app.kubernetes.io/name)
Units == {u \in Ordinals : pod[u] # "gone"}

MaxOf(S) == CHOOSE x \in S : \A y \in S : y <= x

\* self._units: sorted from highest to lowest unit number
SortedUnits == [i \in 1 .. Cardinality(Units) |-> MaxOf(Units) - (i - 1)]

Installed(u) == BundleTable[revBundle[podRev[u]]]

\* self._in_progress
InProgress == \E u \in Units : podRev[u] # appRev

\* ------------------------------------------------------ _OriginalVersions
\* app databag of an application deployed without the original_* keys
EmptyAppDatabag ==
    [ present                             |-> FALSE,
      original_workload_version           |-> "",
      original_workload_container_version |-> "",
      original_charm_version              |-> VersionString("", << >>, ""),
      original_charm_revision             |-> "" ]

\* variant: the workload version and the container digest swap keys
WriteToAppDatabagSwapped(workload, workload_container, charm, charm_revision) ==
    [ present                             |-> TRUE,
      original_workload_version           |-> workload_container,
      original_workload_container_version |-> workload,
      original_charm_version              |-> CharmVersionStr(charm),
      original_charm_revision             |-> charm_revision ]

\* _OriginalVersions.write_to_app_databag: the charm version is stored as str()
WriteToAppDatabag(workload, workload_container, charm, charm_revision) ==
    [ present                             |-> TRUE,
      original_workload_version           |-> workload,
      original_workload_container_version |-> workload_container,
      original_charm_version              |-> CharmVersionStr(charm),
      original_charm_revision             |-> charm_revision ]

\* _OriginalVersions.from_app_databag: ValueError when keys are missing or the
\* stored charm version does not parse
FromAppDatabag(databag) ==
    IF ~databag.present THEN [raised |-> TRUE]
    ELSE IF ~CharmVersion(databag.original_charm_version).valid THEN [raised |-> TRUE]
    ELSE [ raised             |-> FALSE,
           workload           |-> databag.original_workload_version,
           workload_container |-> databag.original_workload_container_version,
           charm              |-> CharmVersion(databag.original_charm_version),
           charm_revision     |-> databag.original_charm_revision ]

\* ------------------------------------------------------------------ events
ForceParams == {<<a, b, c>> : a \in BOOLEAN, b \in BOOLEAN, c \in BOOLEAN}

Events ==
    {[kind |-> k] : k \in {"hook", "stop", "departed", "pre-refresh-check"}}
    \cup {[kind |-> "force-refresh-start", check_workload_container |-> f[1],
           check_compatibility |-> f[2], run_pre_refresh_checks |-> f[3]] : f \in ForceParams}
    \cup {[kind |-> "resume-refresh", check_health_of_refreshed_units |-> c] : c \in BOOLEAN}

\* variant: a rollback is never detected
IsRollbackNever(original_versions, installed) == FALSE

\* the rollback test of _start_refresh: the installed charm version and the
\* installed container digest both equal the original ones
IsRollback(original_versions, installed) ==
    /\ CharmVersionEq(original_versions.charm, CharmVersion(installed.charm))
    /\ original_versions.workload_container = installed.container

\* variant: a failing pre-refresh check does not end the sequence
FailedCheckIgnoringPrecheck(skipContainer, containerOK, skipCompat, compatOK, skipHook, hookOK) ==
    IF ~skipContainer /\ ~containerOK THEN "container"
    ELSE IF ~skipCompat /\ ~compatOK THEN "compatibility"
    ELSE "none"

\* variant: the parameters of force-refresh-start skip nothing
FailedCheckNoSkip(skipContainer, containerOK, skipCompat, compatOK, skipHook, hookOK) ==
    IF ~containerOK THEN "container"
    ELSE IF ~compatOK THEN "compatibility"
    ELSE IF ~hookOK THEN "precheck"
    ELSE "none"

\* the three checks of _start_refresh in order; each runs unless the
\* force-refresh-start action skips it, and the first failure ends the sequence
FailedCheck(skipContainer, containerOK, skipCompat, compatOK, skipHook, hookOK) ==
    IF ~skipContainer /\ ~containerOK THEN "container"
    ELSE IF ~skipCompat /\ ~compatOK THEN "compatibility"
    ELSE IF ~skipHook /\ ~hookOK THEN "precheck"
    ELSE "none"

\* variant: the action is accepted with all three parameters true
ForceRefreshStartActionAllTrue(u, ev) ==
    LET isForce == ev.kind = "force-refresh-start"
    IN  [ force_start |-> isForce /\ InProgress,
          failed      |-> isForce /\ (u # SortedUnits[1] \/ ~InProgress) ]

\* _ForceRefreshStartAction.__init__ and the try around it (the class nested
\* in _start_refresh): force_start is whether the action object is kept,
\* failed whether event.fail was called; a wrong unit fails the action but
\* does not raise
ForceRefreshStartAction(u, ev) ==
    LET isForce == ev.kind = "force-refresh-start"
        wrongUnit == u # SortedUnits[1]
        allChecks == ev.check_workload_container /\ ev.check_compatibility
                     /\ ev.run_pre_refresh_checks
    IN  [ force_start |-> isForce /\ InProgress /\ ~allChecks,
          failed      |-> isForce /\ (wrongUnit \/ ~InProgress \/ allChecks) ]

\* variant: any recorded hash counts, whatever revision it belongs to
RefreshStartedInAnyHash(hashes) == \E v \in Units : hashes[v] # {}

\* self._refresh_started as first computed by _start_refresh: the app's
\* controller revision is in some unit's refresh_started_... list
RefreshStartedIn(hashes) == \E v \in Units : appRev \in hashes[v]

\* ------------------------------------------------ _Kubernetes._start_refresh
\* u: this unit; ev: charm.event; hashes: the refresh_started_... sets as this
\* event sees them; local: this unit's kubernetes_refresh_started marker;
\* databag: the app databag as this event sees it; hookOK: whether
\* run_pre_refresh_checks_after_1_unit_refreshed would return (not raise).
StartRefresh(u, ev, hashes, local, databag, hookOK) ==
    LET first == SortedUnits[1]
        force_start == ForceRefreshStartAction(u, ev).force_start
        initFailed == ForceRefreshStartAction(u, ev).failed
        base == [ raised |-> FALSE, hashes |-> hashes[u], local |-> local,
                  refresh_started |-> FALSE, gateFailed |-> "none",
                  containerChecked |-> FALSE, compatCalled |-> FALSE, hookCalled |-> FALSE,
                  marked |-> "none", unitBlocked |-> FALSE, actionFailed |-> initFailed,
                  forced |-> FALSE ]
        refresh_started0 == RefreshStartedIn(hashes)
        markedHashes == hashes[u] \cup {podRev[u]}
        original_versions == FromAppDatabag(databag)
        installed == Installed(u)
        installed_charm == CharmVersion(installed.charm)
        rollback == IsRollback(original_versions, installed)
        skipContainer == force_start /\ ~ev.check_workload_container
        skipCompat == force_start /\ ~ev.check_compatibility
        skipHook == force_start /\ ~ev.run_pre_refresh_checks
        containerOK == installed.container = installed.pinned_container
        compatOK == IsCompatible(original_versions.charm, installed_charm,
                                 original_versions.workload, installed.workload)
        failed == FailedCheck(skipContainer, containerOK, skipCompat, compatOK,
                              skipHook, hookOK)
    IN  IF ~InProgress THEN base
        ELSE IF u # first THEN [base EXCEPT !.refresh_started = refresh_started0]
        ELSE IF refresh_started0
             THEN [base EXCEPT !.refresh_started = TRUE,
                               !.actionFailed = initFailed \/ force_start]
        ELSE IF original_versions.raised THEN [base EXCEPT !.raised = TRUE]
        ELSE IF rollback
             THEN [base EXCEPT !.refresh_started = TRUE, !.hashes = markedHashes,
                               !.local = TRUE, !.marked = "rollback",
                               !.actionFailed = initFailed \/ force_start]
        ELSE IF failed = "container"
             THEN [base EXCEPT !.gateFailed = "container", !.containerChecked = TRUE,
                               !.unitBlocked = TRUE,
                               !.actionFailed = initFailed \/ force_start]
        ELSE IF failed = "compatibility"
             THEN [base EXCEPT !.gateFailed = "compatibility",
                               !.containerChecked = ~skipContainer,
                               !.compatCalled = TRUE, !.unitBlocked = TRUE,
                               !.actionFailed = initFailed \/ force_start]
        ELSE IF failed = "precheck"
             THEN [base EXCEPT !.gateFailed = "precheck",
                               !.containerChecked = ~skipContainer,
                               !.compatCalled = ~skipCompat,
                               !.hookCalled = TRUE, !.unitBlocked = TRUE,
                               !.actionFailed = initFailed \/ force_start]
        ELSE [base EXCEPT !.refresh_started = TRUE, !.hashes = markedHashes,
                          !.local = TRUE, !.marked = "passed",
                          !.containerChecked = ~skipContainer,
                          !.compatCalled = ~skipCompat, !.hookCalled = ~skipHook,
                          !.forced = force_start]

\* --------------------------- _Kubernetes._set_partition_and_app_status
\* variant: the loop over the units has no break
NextUnitIndexNoBreak ==
    LET n == Cardinality(Units)
        differing == {i \in 1 .. n : podRev[SortedUnits[i]] # appRev}
    IN  IF differing = {} THEN n ELSE CHOOSE i \in differing : \A j \in differing : i >= j

\* index (1-based) of next_unit_to_refresh: the loop breaks at the first unit
\* whose controller revision differs; without a break the last unit remains
NextUnitIndex ==
    LET n == Cardinality(Units)
        differing == {i \in 1 .. n : podRev[SortedUnits[i]] # appRev}
    IN  IF differing = {} THEN n ELSE CHOOSE i \in differing : \A j \in differing : i <= j

\* variant: the target partition is written whatever the current partition is
LowerOnlyUnconditional(target, current) == target

\* variant: the partition is lowered only when the target is more than one below
LowerOnlyBeyondOne(target, current) == IF target < current - 1 THEN target ELSE current

\* the partition is lowered only: written if target_partition < partition
LowerOnly(target, current) == IF target < current THEN target ELSE current

\* variant: pause_after is not looked at
AllowNextUnitToRefreshNoPause(override, refresh_started, unhealthy, action, pause_after, refreshed) ==
    IF override THEN TRUE
    ELSE IF ~refresh_started THEN FALSE
    ELSE ~unhealthy

\* variant: with pause_after FIRST one refreshed unit is enough
AllowNextUnitToRefreshAfterOne(override, refresh_started, unhealthy, action, pause_after, refreshed) ==
    IF override THEN TRUE
    ELSE IF ~refresh_started THEN FALSE
    ELSE IF unhealthy THEN FALSE
    ELSE \/ action
         \/ pause_after = "none"
         \/ (pause_after = "first" /\ refreshed >= 1)

\* variant: the health of the refreshed units is not looked at
AllowNextUnitToRefreshNoHealth(override, refresh_started, unhealthy, action, pause_after, refreshed) ==
    IF override THEN TRUE
    ELSE IF ~refresh_started THEN FALSE
    ELSE \/ action
         \/ pause_after = "none"
         \/ (pause_after = "first" /\ refreshed >= 2)

\* allow_next_unit_to_refresh: override is a resume-refresh action with
\* check-health-of-refreshed-units=false; unhealthy is whether some up-to-date
\* unit has not allowed the next unit to refresh; refreshed is the number of
\* up-to-date units
AllowNextUnitToRefresh(override, refresh_started, unhealthy, action, pause_after, refreshed) ==
    IF override THEN TRUE
    ELSE IF ~refresh_started THEN FALSE
    ELSE IF unhealthy THEN FALSE
    ELSE \/ action
         \/ pause_after = "none"
         \/ (pause_after = "first" /\ refreshed >= 2)

\* variant: the target is the next unit to refresh whether allowed or not
TargetPartitionAlwaysNext(allow_next_unit_to_refresh, idx) == SortedUnits[idx]

\* variant: the target never reaches the next unit to refresh
TargetPartitionNeverNext(allow_next_unit_to_refresh, idx) ==
    SortedUnits[IF idx - 1 >= 1 THEN idx - 1 ELSE 1]

\* variant: an allowed refresh moves the target past the next unit to refresh
TargetPartitionTwoSteps(allow_next_unit_to_refresh, idx) ==
    IF allow_next_unit_to_refresh
    THEN SortedUnits[IF idx + 1 <= Cardinality(Units) THEN idx + 1 ELSE idx]
    ELSE SortedUnits[IF idx - 1 >= 1 THEN idx - 1 ELSE 1]

\* target_partition: the next unit to refresh if it is allowed, otherwise
\* the unit before it (the first unit if there is none before it)
TargetPartition(allow_next_unit_to_refresh, idx) ==
    IF allow_next_unit_to_refresh THEN SortedUnits[idx]
    ELSE SortedUnits[IF idx - 1 >= 1 THEN idx - 1 ELSE 1]

\* variant: at rest the partition is left as it is
AtRestPartitionKept(part) == part

\* no refresh in progress: self._set_partition(0)
AtRestPartition(part) == 0

\* u: this unit; ev: charm.event; part: the partition read by _get_partition();
\* pause_after, refresh_started: as computed earlier in this event;
\* nextDb: next_unit_allowed_to_refresh_if_... as this event sees the relation.
SetPartitionAndAppStatus(u, ev, handle_action, part, pause_after, refresh_started, nextDb) ==
    LET isResume == ev.kind = "resume-refresh"
        notApplicable == /\ handle_action /\ isResume /\ pause_after = "none"
                         /\ ev.check_health_of_refreshed_units
        action == isResume /\ ~notApplicable
        idx == NextUnitIndex
        next_unit_to_refresh == SortedUnits[idx]
        up_to_date_units == {SortedUnits[i] : i \in 1 .. (idx - 1)}
        unhealthy == {v \in up_to_date_units : nextDb[v] # appRev}
        override == action /\ ~ev.check_health_of_refreshed_units
        allow_next_unit_to_refresh ==
            AllowNextUnitToRefresh(override, refresh_started, unhealthy # {}, action,
                                   pause_after, idx - 1)
        target_partition == TargetPartition(allow_next_unit_to_refresh, idx)
        newPartition == LowerOnly(target_partition, part)
        blockedInProgress ==
            \/ pause_after = "all"
            \/ (pause_after = "first" /\ newPartition >= SortedUnits[1])
        \* the message of action.fail(...) and the unit it names (-1: none)
        failure == IF notApplicable THEN "not_applicable"
                   ELSE IF ~(handle_action /\ action) \/ override THEN "none"
                   ELSE IF ~refresh_started THEN "unhealthy"
                   ELSE IF unhealthy # {} THEN "unhealthy"
                   ELSE "none"
        failedUnit == IF failure # "unhealthy" THEN -1
                      ELSE IF ~refresh_started THEN SortedUnits[1]
                      ELSE MaxOf(unhealthy)
        base == [ partition |-> part, target |-> -1, wrote |-> FALSE,
                  appStatus |-> "unset", actionFailed |-> FALSE, override |-> FALSE,
                  failure |-> "none", failedUnit |-> -1 ]
    IN  IF u # leader
        THEN [base EXCEPT !.actionFailed = handle_action /\ isResume,
                          !.failure = IF handle_action /\ isResume
                                      THEN "not_leader" ELSE "none"]
        ELSE IF ~InProgress
        THEN [base EXCEPT !.partition = AtRestPartition(part), !.wrote = TRUE,
                          !.actionFailed = handle_action /\ isResume,
                          !.failure = IF handle_action /\ isResume
                                      THEN "no_refresh_in_progress" ELSE "none",
                          !.appStatus = IF pause_after = "unknown"
                                        THEN "blocked-config" ELSE "unset"]
        ELSE [ partition |-> newPartition,
               target |-> target_partition,
               wrote |-> target_partition < part,
               appStatus |-> IF blockedInProgress THEN "blocked-refreshing"
                             ELSE "maintenance-refreshing",
               actionFailed |-> \/ notApplicable
                                \/ /\ handle_action /\ action /\ ~override
                                   /\ (~refresh_started \/ unhealthy # {}),
               override |-> override,
               failure |-> failure,
               failedUnit |-> failedUnit ]

\* ------------------------------------ _Kubernetes.workload_allowed_to_start
\* variant: the comparison with the original versions is inverted
WorkloadAllowedToStartInverted(u, hashes, databag) ==
    LET original_versions == FromAppDatabag(databag)
        installed == Installed(u)
    IN  IF ~InProgress THEN "True"
        ELSE IF \E v \in Units : podRev[u] \in hashes[v] THEN "True"
        ELSE IF original_versions.raised THEN "raise"
        ELSE IF /\ CharmVersionEq(original_versions.charm, CharmVersion(installed.charm))
                /\ original_versions.workload_container = installed.container
             THEN "False"
        ELSE "True"

\* "True", "False", or "raise" (from_app_databag's ValueError); hashes and
\* databag are the relation as the property reads it
WorkloadAllowedToStart(u, hashes, databag) ==
    LET original_versions == FromAppDatabag(databag)
        installed == Installed(u)
    IN  IF ~InProgress THEN "True"
        ELSE IF \E v \in Units : podRev[u] \in hashes[v] THEN "True"
        ELSE IF original_versions.raised THEN "raise"
        ELSE IF /\ CharmVersionEq(original_versions.charm, CharmVersion(installed.charm))
                /\ original_versions.workload_container = installed.container
             THEN "True"
        ELSE "False"

\* ------------------------------------------------- _Kubernetes.__init__
\* variant: the tearing-down marker is not looked at
StopGuardIgnoringMarker(u, ev, tearing_down) ==
    IF ev.kind = "stop" /\ partition < u THEN u ELSE partition

\* the stop-event guard: raise the partition to this unit's number
StopGuard(u, ev, tearing_down) ==
    IF ev.kind = "stop" /\ ~tearing_down /\ partition < u THEN u ELSE partition

\* the max() over the pause_after values of the most up-to-date units, or
\* "raise" when no such unit has a value (max() of an empty sequence)
PauseAfterOf(pauseDb) ==
    LET most_up_to_date_units == {v \in Units : podRev[v] = podRev[SortedUnits[1]]}
        pause_after_values == {pauseDb[v] : v \in most_up_to_date_units} \ {None}
    IN  IF pause_after_values = {} THEN "raise"
        ELSE PauseMax({PauseAfter(value) : value \in pause_after_values})

\* variant: the leader saves the versions whether or not a refresh is in progress
SaveOriginalVersionsAlways(u) ==
    LET installed == Installed(u)
    IN  IF u = leader
        THEN WriteToAppDatabag(installed.workload, installed.container,
                               CharmVersion(installed.charm), installed.charm_revision)
        ELSE appDb

\* the app databag after __init__: the leader saves the original versions
\* when no refresh is in progress
SaveOriginalVersions(u) ==
    LET installed == Installed(u)
    IN  IF ~InProgress /\ u = leader
        THEN WriteToAppDatabag(installed.workload, installed.container,
                               CharmVersion(installed.charm), installed.charm_revision)
        ELSE appDb

Only(S) == CHOOSE x \in S : TRUE

\* variant: the access review is not looked at
TrustedAlways == TRUE

\* the SelfSubjectAccessReview for patching the StatefulSet: status.allowed
Trusted == trusted

\* variant: the pre-refresh-check action runs the checks during a refresh too
PreRefreshCheckActionInProgress(u, ev) ==
    IF ev.kind # "pre-refresh-check" THEN [hook |-> FALSE, refused |-> FALSE]
    ELSE IF u = leader THEN [hook |-> TRUE, refused |-> FALSE]
    ELSE [hook |-> FALSE, refused |-> TRUE]

\* variant: the pre-refresh-check action is not limited to the leader
PreRefreshCheckActionAnyUnit(u, ev) ==
    IF ev.kind # "pre-refresh-check" THEN [hook |-> FALSE, refused |-> FALSE]
    ELSE IF InProgress THEN [hook |-> FALSE, refused |-> TRUE]
    ELSE [hook |-> TRUE, refused |-> FALSE]

\* the pre-refresh-check action in __init__: hook is whether
\* run_pre_refresh_checks_before_any_units_refreshed is called, refused
\* whether the action is failed without calling it
PreRefreshCheckAction(u, ev) ==
    IF ev.kind # "pre-refresh-check" THEN [hook |-> FALSE, refused |-> FALSE]
    ELSE IF InProgress THEN [hook |-> FALSE, refused |-> TRUE]
    ELSE IF u = leader THEN [hook |-> TRUE, refused |-> FALSE]
    ELSE [hook |-> FALSE, refused |-> TRUE]

\* __init__ up to the call of _start_refresh: the stop guard, the unit's
\* pause_after_unit_refresh_config, the re-publication of the local marker,
\* pause_after, the clean-up of the hashes and the original versions
BeforeStartRefresh(u, ev) ==
    LET tearing_down == (ev.kind = "departed") \/ tearingDown[u]
        pauseDb == [dbPause EXCEPT ![u] = config]
        hashes0 == [dbStarted EXCEPT ![u] =
                        IF localStarted[u] THEN @ \cup {podRev[u]} ELSE @]
    IN  [ tearing_down |-> tearing_down,
          guarded      |-> StopGuard(u, ev, tearing_down),
          pauseDb      |-> pauseDb,
          pause_after  |-> PauseAfterOf(pauseDb),
          hashes1      |-> IF ~InProgress THEN [hashes0 EXCEPT ![u] = {}] ELSE hashes0,
          databag      |-> SaveOriginalVersions(u),
          preCheckHook |-> PreRefreshCheckAction(u, ev).hook,
          preCheckRefused |-> PreRefreshCheckAction(u, ev).refused ]

\* what the event leaves behind, given a == BeforeStartRefresh, sr ==
\* _start_refresh, sp1 == _set_partition_and_app_status(handle_action=True)
\* and sp2 == the call made by the next_unit_allowed_to_refresh setter
EventResult(u, setNext, a, sr, sp1, sp2) ==
    LET hashes2 == [a.hashes1 EXCEPT ![u] = sr.hashes]
        wats == WorkloadAllowedToStart(u, hashes2, a.databag)
        raisedAt == IF ~Trusted THEN "not_trusted"
                    ELSE IF a.pause_after = "raise" THEN "pause_after"
                    ELSE IF sr.raised THEN "original_versions"
                    ELSE IF setNext /\ wats = "raise" THEN "workload_allowed_to_start"
                    ELSE "none"
        second == raisedAt = "none" /\ setNext /\ wats = "True"
        done == raisedAt \in {"none", "workload_allowed_to_start"}
        notRun == [sr EXCEPT !.hashes = a.hashes1[u], !.local = localStarted[u],
                             !.refresh_started = FALSE, !.raised = FALSE,
                             !.gateFailed = "none", !.containerChecked = FALSE,
                             !.compatCalled = FALSE, !.hookCalled = FALSE,
                             !.marked = "none", !.unitBlocked = FALSE,
                             !.actionFailed = FALSE, !.forced = FALSE]
    IN  [ raisedAt        |-> raisedAt,
          tearingDown     |-> a.tearing_down,
          partition       |-> IF second THEN sp2.partition
                              ELSE IF done THEN sp1.partition
                              ELSE IF raisedAt = "not_trusted" THEN partition
                              ELSE a.guarded,
          trustStatus     |-> IF raisedAt = "not_trusted" /\ u = leader
                              THEN "blocked-trust" ELSE "unset",
          localStarted    |-> IF raisedAt \in {"not_trusted", "pause_after"}
                              THEN localStarted[u] ELSE sr.local,
          dbPause         |-> IF raisedAt = "none" THEN a.pauseDb ELSE dbPause,
          dbStarted       |-> IF raisedAt = "none" THEN hashes2 ELSE dbStarted,
          appDb           |-> IF raisedAt = "none" THEN a.databag ELSE appDb,
          dbNext          |-> IF second THEN [dbNext EXCEPT ![u] = podRev[u]] ELSE dbNext,
          pause_after     |-> a.pause_after,
          start           |-> IF raisedAt \in {"not_trusted", "pause_after"}
                              THEN notRun ELSE sr,
          preCheckHook    |-> raisedAt = "none" /\ a.preCheckHook,
          preCheckRefused |-> raisedAt \notin {"not_trusted", "pause_after"}
                              /\ a.preCheckRefused,
          first           |-> IF done THEN sp1 ELSE [sp1 EXCEPT !.target = -1],
          second          |-> IF second THEN sp2 ELSE [sp2 EXCEPT !.target = -1],
          hashesSeen      |-> hashes2,
          workloadAllowed |-> wats ]

\* One Juju event on unit u: _Kubernetes.__init__, then the charm code, which
\* sets next_unit_allowed_to_refresh = True when setNext (it does so only
\* after reading workload_allowed_to_start as True).  An uncaught exception
\* fails the event: Juju discards the event's relation writes, while the
\* StatefulSet patch and the local files stay.  The record holds what the
\* event computes and the values it leaves in each variable.
Outcome(u, ev, hookOK, setNext) ==
    Only({ Only({ Only({ Only({ EventResult(u, setNext, a, sr, sp1, sp2)
        : sp2 \in {SetPartitionAndAppStatus(u, ev, FALSE, sp1.partition, a.pause_after,
                                            sr.refresh_started,
                                            [dbNext EXCEPT ![u] = podRev[u]])} })
        : sp1 \in {SetPartitionAndAppStatus(u, ev, TRUE, a.guarded, a.pause_after,
                                            sr.refresh_started, dbNext)} })
        : sr \in {StartRefresh(u, ev, a.hashes1, localStarted[u], a.databag, hookOK)} })
        : a \in {BeforeStartRefresh(u, ev)} })

\* whether this event can reach a call of the charm's pre-refresh checks
MayRunChecks(u, ev) ==
    \/ ev.kind = "pre-refresh-check" /\ ~InProgress /\ u = leader
    \/ InProgress /\ u = SortedUnits[1]

Event(u, ev, hookOK, setNext) ==
    /\ hookOK \/ MayRunChecks(u, ev)
    /\ \E o \in {Outcome(u, ev, hookOK, setNext)} :
        /\ hookOK \/ o.start.hookCalled \/ o.preCheckHook
        /\ partition' = o.partition
        /\ tearingDown' = [tearingDown EXCEPT ![u] = o.tearingDown]
        /\ localStarted' = [localStarted EXCEPT ![u] = o.localStarted]
        /\ dbPause' = o.dbPause
        /\ dbNext' = o.dbNext
        /\ dbStarted' = o.dbStarted
        /\ appDb' = o.appDb

\* ------------------------------------------------------------ environment
\* a settled deployment of NumUnits units with pause_after_unit_refresh=value:
\* every unit has run its events, the leader has saved the original versions
Deployed(value) ==
    /\ partition = 0
    /\ appRev = 1
    /\ currentRev = 1
    /\ revBundle = [r \in Revs |-> "v1"]
    /\ pod = [u \in Ordinals |-> "up"]
    /\ podRev = [u \in Ordinals |-> 1]
    /\ replicas = NumUnits
    /\ leader = 1
    /\ config = value
    /\ dbPause = [u \in Ordinals |-> config]
    /\ dbNext = [u \in Ordinals |-> 1]
    /\ dbStarted = [u \in Ordinals |-> {}]
    /\ appDb = WriteToAppDatabag("w1", "sha256:d1", CharmVersion(BundleTable["v1"].charm), "ch:amd64/jammy/app-k8s-1")
    /\ localStarted = [u \in Ordinals |-> FALSE]
    /\ tearingDown = [u \in Ordinals |-> FALSE]
    /\ restarts = 0
    /\ configChanges = 0
    /\ trusted = TRUE
    /\ call = NoCall
    /\ running = [u \in Ordinals |-> Idle]

\* the config option has its default value
Init == Deployed("none")

\* refreshes after the first one, restarts, scale-downs and config changes so far
Disturbances ==
    restarts + configChanges + (NumUnits - replicas) + (IF appRev > 2 THEN appRev - 2 ELSE 0)

\* status.currentRevision follows updateRevision once every pod has it
CurrentRevisionAfter(pods, revs) ==
    IF \A u \in Ordinals : pods[u] # "gone" => revs[u] = appRev
    THEN appRev ELSE currentRev

\* `juju refresh`: the StatefulSet gets a new controller revision
JujuRefresh(b) ==
    /\ appRev < MaxRev
    /\ appRev > 1 => Disturbances < MaxDisturbances
    /\ b # revBundle[appRev]
    /\ appRev' = appRev + 1
    /\ revBundle' = [revBundle EXCEPT ![appRev + 1] = b]
    /\ UNCHANGED << partition, currentRev, pod, podRev, replicas, leader, config,
                    dbPause, dbNext, dbStarted, appDb, localStarted, tearingDown,
                    restarts, configChanges, trusted, call, running >>

\* the rolling update deletes the highest pod at or above the partition that
\* is not on the update revision, once the pods above it are updated and up
RollingUpdateTarget(u) ==
    /\ u >= partition
    /\ u < replicas
    /\ podRev[u] # appRev
    /\ \A v \in Units : v > u => (podRev[v] = appRev /\ pod[v] = "up")

\* a pod is deleted by the rolling update: the unit runs its stop event
RollingStop(u, hookOK) ==
    /\ pod[u] = "up"
    /\ RollingUpdateTarget(u)
    /\ Event(u, [kind |-> "stop"], hookOK, FALSE)
    /\ pod' = [pod EXCEPT ![u] = "down"]
    /\ UNCHANGED << appRev, currentRev, revBundle, podRev, replicas, leader, config,
                    restarts, configChanges, trusted, call, running >>

\* a pod is deleted for another reason (eviction, node drain, kubectl delete)
RestartStop(u, hookOK) ==
    /\ pod[u] = "up"
    /\ u < replicas
    /\ Disturbances < MaxDisturbances
    /\ restarts' = restarts + 1
    /\ Event(u, [kind |-> "stop"], hookOK, FALSE)
    /\ pod' = [pod EXCEPT ![u] = "down"]
    /\ UNCHANGED << appRev, currentRev, revBundle, podRev, replicas, leader, config,
                    configChanges, trusted, call, running >>

\* the StatefulSet controller re-creates the pod: on the update revision at
\* or above the partition, on the current revision below it; the pod's local
\* state directory is new
PodStart(u) ==
    /\ pod[u] = "down"
    /\ u < replicas
    /\ LET rev == IF u >= partition THEN appRev ELSE currentRev
           revs == [podRev EXCEPT ![u] = rev]
           pods == [pod EXCEPT ![u] = "up"]
       IN  /\ podRev' = revs
           /\ pod' = pods
           /\ currentRev' = CurrentRevisionAfter(pods, revs)
    /\ localStarted' = [localStarted EXCEPT ![u] = FALSE]
    /\ tearingDown' = [tearingDown EXCEPT ![u] = FALSE]
    /\ UNCHANGED << partition, appRev, revBundle, replicas, leader, config,
                    dbPause, dbNext, dbStarted, appDb, restarts, configChanges, trusted, call, running >>

\* the operator removes the highest unit (never the leader in this model)
ScaleDown ==
    /\ Disturbances < MaxDisturbances
    /\ replicas > 1
    /\ leader # replicas - 1
    /\ replicas' = replicas - 1
    /\ UNCHANGED << partition, appRev, currentRev, revBundle, pod, podRev, leader,
                    config, dbPause, dbNext, dbStarted, appDb, localStarted,
                    tearingDown, restarts, configChanges, trusted, call, running >>

\* the unit being removed sees itself depart the peer relation
Departed(u, hookOK) ==
    /\ pod[u] = "up"
    /\ u >= replicas
    /\ ~tearingDown[u]
    /\ Event(u, [kind |-> "departed"], hookOK, FALSE)
    /\ UNCHANGED envVars

\* the pod of the unit being removed is deleted; Juju delivers the
\* relation-departed event before the stop event
RemovedStop(u, hookOK) ==
    /\ pod[u] = "up"
    /\ u >= replicas
    /\ tearingDown[u]
    /\ Event(u, [kind |-> "stop"], hookOK, FALSE)
    /\ pod' = [pod EXCEPT ![u] = "down"]
    /\ UNCHANGED << appRev, currentRev, revBundle, podRev, replicas, leader, config,
                    restarts, configChanges, trusted, call, running >>

\* the removed unit is gone: no pod, no unit databag
PodGone(u) ==
    /\ pod[u] = "down"
    /\ u >= replicas
    /\ LET pods == [pod EXCEPT ![u] = "gone"]
       IN  /\ pod' = pods
           /\ currentRev' = CurrentRevisionAfter(pods, podRev)
    /\ dbPause' = [dbPause EXCEPT ![u] = None]
    /\ dbNext' = [dbNext EXCEPT ![u] = NoRev]
    /\ dbStarted' = [dbStarted EXCEPT ![u] = {}]
    /\ localStarted' = [localStarted EXCEPT ![u] = FALSE]
    /\ tearingDown' = [tearingDown EXCEPT ![u] = FALSE]
    /\ UNCHANGED << partition, appRev, revBundle, podRev, replicas, leader, config,
                    appDb, restarts, configChanges, trusted, call, running >>

\* `juju config app pause_after_unit_refresh=...`
ConfigChange(value) ==
    /\ Disturbances < MaxDisturbances
    /\ value # config
    /\ config' = value
    /\ configChanges' = configChanges + 1
    /\ UNCHANGED << partition, appRev, currentRev, revBundle, pod, podRev, replicas,
                    leader, dbPause, dbNext, dbStarted, appDb, localStarted,
                    tearingDown, restarts, trusted, call, running >>

\* any other Juju event (config-changed, relation-changed, update-status, ...);
\* with no refresh in progress the charm finds its unit healthy
HookEvent(u, hookOK, setNext) ==
    /\ pod[u] = "up"
    /\ InProgress \/ setNext
    /\ Event(u, [kind |-> "hook"], hookOK, setNext)
    /\ UNCHANGED envVars

\* the operator runs pre-refresh-check, force-refresh-start or resume-refresh
ActionEvent(u, ev, hookOK, setNext) ==
    /\ pod[u] = "up"
    /\ ev.kind \in {"pre-refresh-check", "force-refresh-start", "resume-refresh"}
    /\ setNext => ev.kind = "resume-refresh"
    /\ ev.kind = "pre-refresh-check" => ~InProgress /\ u = leader
    /\ ev.kind = "force-refresh-start" => InProgress /\ u = SortedUnits[1]
    /\ ev.kind = "resume-refresh" => InProgress /\ u = leader
    /\ Event(u, ev, hookOK, setNext)
    /\ UNCHANGED envVars

Next ==
    \/ \E b \in Bundles : JujuRefresh(b)
    \/ \E u \in Ordinals, hookOK \in BOOLEAN : RollingStop(u, hookOK)
    \/ \E u \in Ordinals, hookOK \in BOOLEAN : RestartStop(u, hookOK)
    \/ \E u \in Ordinals : PodStart(u)
    \/ ScaleDown
    \/ \E u \in Ordinals, hookOK \in BOOLEAN : Departed(u, hookOK)
    \/ \E u \in Ordinals, hookOK \in BOOLEAN : RemovedStop(u, hookOK)
    \/ \E u \in Ordinals : PodGone(u)
    \/ \E value \in ConfigValues : ConfigChange(value)
    \/ \E u \in Ordinals, hookOK \in BOOLEAN, setNext \in BOOLEAN :
            HookEvent(u, hookOK, setNext)
    \/ \E u \in Ordinals, ev \in Events, hookOK \in BOOLEAN, setNext \in BOOLEAN :
            ActionEvent(u, ev, hookOK, setNext)

Spec == Init /\ [][Next]_vars

\* ------------------------------------------------- rollback under fairness
\* the application's revision installs the original versions again
RolledBack ==
    \A original_versions \in {FromAppDatabag(appDb)} :
        /\ ~original_versions.raised
        /\ CharmVersionEq(original_versions.charm,
                          CharmVersion(BundleTable[revBundle[appRev]].charm))
        /\ original_versions.workload_container = BundleTable[revBundle[appRev]].container

InitAnyConfig == \E value \in ConfigValues : Deployed(value)

\* the first `juju refresh` of a settled application
FirstRefresh(b) ==
    /\ appRev = 1
    /\ JujuRefresh(b)

\* the operator rolls back: `juju refresh` to the revision and resource the
\* application was on before the refresh in progress
Rollback ==
    /\ InProgress
    /\ ~RolledBack
    /\ JujuRefresh(revBundle[currentRev])

NextRollback ==
    \/ \E b \in Bundles : FirstRefresh(b)
    \/ Rollback
    \/ \E u \in Ordinals, hookOK \in BOOLEAN : RollingStop(u, hookOK)
    \/ \E u \in Ordinals : PodStart(u)
    \/ \E u \in Ordinals, hookOK \in BOOLEAN, setNext \in BOOLEAN :
            HookEvent(u, hookOK, setNext)
    \/ \E u \in Ordinals, ev \in Events, hookOK \in BOOLEAN, setNext \in BOOLEAN :
            ActionEvent(u, ev, hookOK, setNext)

\* the steps that carry a refresh forward: Kubernetes replaces and re-creates
\* pods, Juju delivers an event in which the charm reports its unit healthy,
\* the operator runs resume-refresh (with the health check) on the leader
Progress ==
    \/ \E u \in Ordinals, hookOK \in BOOLEAN : RollingStop(u, hookOK)
    \/ \E u \in Ordinals : PodStart(u)
    \/ \E u \in Ordinals, hookOK \in BOOLEAN : HookEvent(u, hookOK, TRUE)
    \/ \E u \in Ordinals, hookOK \in BOOLEAN, setNext \in BOOLEAN :
            ActionEvent(u, [kind |-> "resume-refresh",
                            check_health_of_refreshed_units |-> TRUE],
                        hookOK, setNext)

\* fair delivery: a step that carries the refresh forward is eventually taken
\* if one stays possible
Fairness == WF_vars(Progress)

RollbackSpec == InitAnyConfig /\ [][NextRollback]_vars /\ Fairness

\* C7: once the operator has refreshed back to the original versions, the
\* refresh eventually is no longer in progress and the partition is 0.
C7_RollbackCompletes ==
    (InProgress /\ RolledBack) ~> (~InProgress /\ partition = 0)

\* a rollback has been requested while refreshed units are above the partition
C7_Witness ==
    /\ InProgress /\ RolledBack /\ appRev > 2
    /\ partition > 0
    /\ \E u \in Units : podRev[u] = appRev - 1

\* ------------------------------------------------------------------ claims
\* units whose controller revision differs from the app's, at or above the partition
OutdatedAtOrAbovePartition == {u \in Units : podRev[u] # appRev /\ u >= partition}

C2_AtMostOneOutdatedAboveAsStated ==
    InProgress => Cardinality(OutdatedAtOrAbovePartition) <= 1

\* C2 amended: whenever the partition is lowered while a refresh is in
\* progress, at most one unit whose revision differs from the app's has a
\* number at or above the new partition.
C2_LoweredToAtMostOneOutdated ==
    [][(InProgress /\ partition' < partition) =>
         Cardinality({u \in Units : podRev[u] # appRev /\ u >= partition'}) <= 1]_vars

\* the leader has lowered the partition to the one unit that may refresh next
C2_Witness ==
    /\ InProgress /\ podRev[SortedUnits[1]] = appRev
    /\ partition < SortedUnits[1]
    /\ Cardinality(OutdatedAtOrAbovePartition) = 1
    /\ Cardinality({u \in Units : podRev[u] # appRev}) = 2

\* C3 as stated: a unit is on the app's revision only if every unit with a
\* higher number is.
C3_RefreshOrderAsStated ==
    \A u \in Units, v \in Units :
        (u < v /\ podRev[u] = appRev) => podRev[v] = appRev

\* C3 amended: whenever the partition is lowered while a refresh is in progress,
\* every unit with a number above the new partition is on the app's revision.
C3_LoweredOnlyBelowRefreshedUnits ==
    [][(InProgress /\ partition' < partition) =>
         \A v \in Units : v > partition' => podRev[v] = appRev]_vars

\* the partition has been lowered to the last unit, below refreshed units
C3_Witness ==
    /\ InProgress /\ partition = 0 /\ Cardinality(Units) = NumUnits
    /\ \A v \in Units : (v > 0 <=> podRev[v] = appRev)
    /\ \E v \in Units : appRev \in dbStarted[v]

\* units that can run an event
UpUnits == {u \in Units : pod[u] = "up"}

\* units whose controller revision differs from the app's
OutdatedUnits == {u \in Units : podRev[u] # appRev}

\* refreshed units that have not allowed the next unit to refresh, as the
\* relation nextDb shows them
UnhealthyRefreshedUnits(nextDb) == {u \in Units : podRev[u] = appRev /\ nextDb[u] # appRev}

\* C4 as stated: for every refreshed unit u whose next_unit_allowed_to_refresh
\* value differs from the app's revision, no invocation on the leader computes
\* a target partition lower than u's number (the charm reports its unit
\* healthy in the event, so that both calls of _set_partition_and_app_status
\* are looked at).
C4_TargetNotBelowUnhealthyAsStated ==
    pod[leader] = "up" =>
        \A ev \in Events, hookOK \in BOOLEAN :
            \A o \in {Outcome(leader, ev, hookOK, TRUE)} :
                /\ o.first.target # -1 =>
                       \A u \in UnhealthyRefreshedUnits(dbNext) : o.first.target >= u
                /\ o.second.target # -1 =>
                       \A u \in UnhealthyRefreshedUnits(o.dbNext) : o.second.target >= u

\* C4 amended: if some unit above every outdated unit has a
\* next_unit_allowed_to_refresh value that differs from the app's revision,
\* then an invocation on the leader, unless it handles resume-refresh with
\* check-health-of-refreshed-units=false, computes a target partition above
\* every outdated unit (in both calls of _set_partition_and_app_status).
C4_UnhealthyUnitHoldsNextUnit ==
    pod[leader] = "up" =>
        \A ev \in Events, hookOK \in BOOLEAN :
            \A o \in {Outcome(leader, ev, hookOK, TRUE)} :
                /\ ( /\ o.first.target # -1 /\ ~o.first.override
                     /\ \E u \in UnhealthyRefreshedUnits(dbNext) :
                            \A v \in OutdatedUnits : v < u )
                   => \A v \in OutdatedUnits : o.first.target > v
                /\ ( /\ o.second.target # -1 /\ ~o.second.override
                     /\ \E u \in UnhealthyRefreshedUnits(o.dbNext) :
                            \A v \in OutdatedUnits : v < u )
                   => \A v \in OutdatedUnits : o.second.target > v

\* the leader, asked to resume with a health check, keeps the target on an
\* unhealthy refreshed unit although the refresh has started
C4_Witness ==
    /\ InProgress /\ pod[leader] = "up"
    /\ \E v \in Units : appRev \in dbStarted[v]
    /\ \E u \in UnhealthyRefreshedUnits(dbNext) :
          /\ \A v \in OutdatedUnits : v < u
          /\ Outcome(leader, [kind |-> "resume-refresh",
                              check_health_of_refreshed_units |-> TRUE],
                     TRUE, FALSE).first.target = u

\* what unit u's event o adds to the record of "refresh started"
NewlyMarked(u, o) ==
    \/ o.localStarted /\ ~localStarted[u]
    \/ ~(o.dbStarted[u] \subseteq
            (dbStarted[u] \cup (IF localStarted[u] THEN {podRev[u]} ELSE {})))

\* the rollback fast path applies to unit u
RollbackApplies(u) ==
    \A original_versions \in {FromAppDatabag(appDb)} :
        /\ ~original_versions.raised
        /\ CharmVersionEq(original_versions.charm, CharmVersion(Installed(u).charm))
        /\ original_versions.workload_container = Installed(u).container

\* a force-refresh-start action that _start_refresh accepts
ValidForce(u, ev) ==
    /\ ev.kind = "force-refresh-start" /\ InProgress
    /\ ~(ev.check_workload_container /\ ev.check_compatibility /\ ev.run_pre_refresh_checks)

\* every check that is not skipped by a valid force-refresh-start succeeds
RunChecksSucceed(u, ev, hookOK) ==
    \A original_versions \in {FromAppDatabag(appDb)} :
        /\ ~original_versions.raised
        /\ \/ ValidForce(u, ev) /\ ~ev.check_workload_container
           \/ Installed(u).container = Installed(u).pinned_container
        /\ \/ ValidForce(u, ev) /\ ~ev.check_compatibility
           \/ IsCompatible(original_versions.charm, CharmVersion(Installed(u).charm),
                           original_versions.workload, Installed(u).workload)
        /\ \/ ValidForce(u, ev) /\ ~ev.run_pre_refresh_checks
           \/ hookOK

\* C5: an event adds to the record of "refresh started" (the local marker, or
\* a hash in the unit's refresh_started_... list that is not the re-publication
\* of an existing marker) only if the rollback fast path applies or every check
\* that ran succeeded, and then it sets both the marker and the hash.
C5_MarkedOnlyAfterChecks ==
    \A u \in UpUnits, ev \in Events, hookOK \in BOOLEAN :
        \A o \in {Outcome(u, ev, hookOK, FALSE)} :
            NewlyMarked(u, o) =>
                /\ RollbackApplies(u) \/ RunChecksSucceed(u, ev, hookOK)
                /\ o.localStarted /\ podRev[u] \in o.dbStarted[u]

\* the first unit, on versions that differ from the original ones, has
\* recorded "refresh started"
C5_Witness ==
    /\ InProgress
    /\ \E u \in UpUnits : /\ u = SortedUnits[1] /\ podRev[u] = appRev
                          /\ ~RollbackApplies(u)
                          /\ localStarted[u] /\ appRev \in dbStarted[u]

\* the refresh has not started, as an event on unit u sees it
NotStarted(u) ==
    /\ \A v \in Units : appRev \notin dbStarted[v]
    /\ ~(localStarted[u] /\ podRev[u] = appRev)

\* C6: in a rollback (refresh in progress and not started, the first unit's
\* installed charm version and container digest equal the original ones), an
\* event on the first unit marks the refresh as started and calls neither the
\* compatibility predicate nor a pre-refresh check, whatever they would return.
C6_RollbackSkipsChecks ==
    \A u \in UpUnits, ev \in Events, hookOK \in BOOLEAN, setNext \in BOOLEAN :
        (u = SortedUnits[1] /\ InProgress /\ NotStarted(u) /\ RollbackApplies(u)) =>
            \A o \in {Outcome(u, ev, hookOK, setNext)} :
                /\ o.localStarted /\ podRev[u] \in o.dbStarted[u]
                /\ o.start.marked = "rollback"
                /\ ~o.start.compatCalled /\ ~o.start.hookCalled /\ ~o.preCheckHook

\* after a second `juju refresh` back to the original versions, the first unit
\* has been re-created on them and has marked the refresh as started
C6_Witness ==
    /\ InProgress /\ appRev > 2
    /\ \E u \in UpUnits : /\ u = SortedUnits[1] /\ podRev[u] = appRev
                          /\ RollbackApplies(u)
                          /\ localStarted[u] /\ appRev \in dbStarted[u]

\* the installed charm version or container digest of unit u differs from the
\* original ones
DiffersFromOriginal(u) ==
    \A original_versions \in {FromAppDatabag(appDb)} :
        /\ ~original_versions.raised
        /\ ~( /\ CharmVersionEq(original_versions.charm, CharmVersion(Installed(u).charm))
              /\ original_versions.workload_container = Installed(u).container )

\* C8: in an event that gets as far as reading workload_allowed_to_start, the
\* property is true when no refresh is in progress; while a refresh is in
\* progress, on a unit whose installed charm version or container digest
\* differs from the original ones, it is false as long as no unit's databag
\* lists this unit's controller revision in refresh_started_..._hash_in.
C8_WorkloadHeldUntilStarted ==
    \A u \in UpUnits, ev \in Events, hookOK \in BOOLEAN :
        \A o \in {Outcome(u, ev, hookOK, TRUE)} :
            o.raisedAt \in {"none", "workload_allowed_to_start"} =>
                /\ ~InProgress => o.workloadAllowed = "True"
                /\ ( /\ InProgress /\ DiffersFromOriginal(u)
                     /\ \A v \in Units : podRev[u] \notin o.hashesSeen[v] )
                   => o.workloadAllowed = "False"
                /\ (InProgress /\ DiffersFromOriginal(u) /\ o.workloadAllowed = "True")
                   => \E v \in Units : podRev[u] \in o.hashesSeen[v]

\* a refreshed first unit whose pre-refresh check fails is not allowed to
\* start its workload
C8_Witness ==
    /\ InProgress
    /\ \E u \in UpUnits :
          /\ podRev[u] = appRev /\ DiffersFromOriginal(u)
          /\ \A o \in {Outcome(u, [kind |-> "hook"], FALSE, FALSE)} :
                /\ o.start.gateFailed = "precheck"
                /\ o.workloadAllowed = "False"

\* C9: an event on the leader that completes while no refresh is in progress
\* leaves in the app databag the original versions (pinned workload version,
\* installed container digest, installed charm version, installed raw charm
\* revision) of the leader.
C9_OriginalVersionsOfLeader ==
    (pod[leader] = "up" /\ ~InProgress) =>
        \A ev \in Events, hookOK \in BOOLEAN, setNext \in BOOLEAN :
            \A o \in {Outcome(leader, ev, hookOK, setNext)} :
                o.raisedAt = "none" =>
                    \A original_versions \in {FromAppDatabag(o.appDb)} :
                        /\ ~original_versions.raised
                        /\ original_versions.workload = Installed(leader).workload
                        /\ original_versions.workload_container = Installed(leader).container
                        /\ CharmVersionEq(original_versions.charm,
                                          CharmVersion(Installed(leader).charm))
                        /\ original_versions.charm_revision = Installed(leader).charm_revision

\* after a completed refresh the app databag holds the versions of the new
\* revision, which the leader runs
C9_Witness ==
    /\ ~InProgress /\ appRev > 1 /\ pod[leader] = "up"
    /\ revBundle[appRev] # "v1"
    /\ appDb = WriteToAppDatabag(Installed(leader).workload, Installed(leader).container,
                                 CharmVersion(Installed(leader).charm),
                                 Installed(leader).charm_revision)

\* C10: while any unit's controller revision differs from the app's, no step
\* changes the four original_* keys of the app databag.
C10_OriginalVersionsFrozen ==
    [][InProgress => appDb' = appDb]_vars

\* the leader has been refreshed and has run an event on the new revision
\* while the refresh is in progress; the app databag still holds other versions
C10_Witness ==
    /\ InProgress /\ pod[leader] = "up"
    /\ podRev[leader] = appRev /\ dbNext[leader] = appRev
    /\ appDb # WriteToAppDatabag(Installed(leader).workload, Installed(leader).container,
                                 CharmVersion(Installed(leader).charm),
                                 Installed(leader).charm_revision)

\* ------------------------------------------- happy refresh under fairness
\* a deployment with pause_after_unit_refresh=none that is refreshed once;
\* units run events in any order, the operator may run actions
NextHappy ==
    \/ \E b \in Bundles : FirstRefresh(b)
    \/ \E u \in Ordinals, hookOK \in BOOLEAN : RollingStop(u, hookOK)
    \/ \E u \in Ordinals : PodStart(u)
    \/ \E u \in Ordinals, hookOK \in BOOLEAN, setNext \in BOOLEAN :
            HookEvent(u, hookOK, setNext)
    \/ \E u \in Ordinals, ev \in Events, hookOK \in BOOLEAN, setNext \in BOOLEAN :
            ActionEvent(u, ev, hookOK, setNext)

HappySpec == Init /\ [][NextHappy]_vars /\ Fairness

\* the versions of the app's revision pass the workload container check and
\* the compatibility check against the versions of the first revision
GatesPass ==
    LET new == BundleTable[revBundle[appRev]]
        old == BundleTable[revBundle[1]]
    IN  /\ new.container = new.pinned_container
        /\ IsCompatible(CharmVersion(old.charm), CharmVersion(new.charm),
                        old.workload, new.workload)

\* the refresh is complete: every unit is on the app's revision, the partition
\* is 0 and the app databag holds the versions of the app's revision
RefreshComplete ==
    /\ \A u \in Units : podRev[u] = appRev
    /\ ~InProgress
    /\ partition = 0
    /\ appDb = WriteToAppDatabag(BundleTable[revBundle[appRev]].workload,
                                 BundleTable[revBundle[appRev]].container,
                                 CharmVersion(BundleTable[revBundle[appRev]].charm),
                                 BundleTable[revBundle[appRev]].charm_revision)

\* C11: with 3 units and pause_after none, a refresh to versions that pass the
\* gates, in which pre-refresh checks eventually succeed and refreshed units
\* eventually set next_unit_allowed_to_refresh, eventually is complete: all
\* units on the new revision, partition 0, no refresh in progress, and the
\* original versions in the app databag are the new versions.
C11_HappyRefreshCompletes ==
    (appRev = 2 /\ GatesPass) ~> (appRev = 2 /\ RefreshComplete)

\* midway: the first unit is refreshed and has passed the checks, the
\* partition has been lowered to the second unit
C11_Witness ==
    /\ appRev = 2 /\ GatesPass /\ NumUnits = 3 /\ config = "none"
    /\ podRev[2] = 2 /\ podRev[1] = 1 /\ partition = 1
    /\ 2 \in dbStarted[2]

\* the effective pause_after as an event on unit u computes it
EffectivePauseAfter(u) == PauseAfterOf([dbPause EXCEPT ![u] = config])

\* C12: while the effective pause_after is ALL or UNKNOWN and the first unit
\* is refreshed, an invocation on the leader that does not handle a
\* resume-refresh action never lowers the partition to the number of the next
\* unit to refresh, whatever the refreshed units have set; an invocation that
\* handles resume-refresh lowers it no further than that one unit.
C12_PausedUntilResume ==
    ( /\ pod[leader] = "up" /\ InProgress /\ NextUnitIndex >= 2
      /\ EffectivePauseAfter(leader) \in {"all", "unknown"} )
    => \A ev \in Events, hookOK \in BOOLEAN, setNext \in BOOLEAN :
           \A o \in {Outcome(leader, ev, hookOK, setNext)} :
               /\ ev.kind # "resume-refresh" =>
                      (o.partition < partition => o.partition > SortedUnits[NextUnitIndex])
               /\ ev.kind = "resume-refresh" =>
                      (o.partition < partition => o.partition >= SortedUnits[NextUnitIndex])

\* pause_after is ALL or UNKNOWN, the refresh has started, every refreshed
\* unit has allowed the next unit to refresh, and the leader, which has run an
\* event with this config, holds the partition above the next unit to refresh
C12_Witness ==
    /\ pod[leader] = "up" /\ InProgress /\ NextUnitIndex >= 2
    /\ dbPause[leader] = config
    /\ EffectivePauseAfter(leader) \in {"all", "unknown"}
    /\ \E v \in Units : appRev \in dbStarted[v]
    /\ \A v \in Units : podRev[v] = appRev => (dbNext[v] = appRev /\ pod[v] = "up")
    /\ partition > SortedUnits[NextUnitIndex]

\* the app status the last call of _set_partition_and_app_status in event o set
AppStatusLeft(o) ==
    IF o.second.target # -1 THEN o.second.appStatus ELSE o.first.appStatus

\* C13: an unrecognized pause_after_unit_refresh value is classified UNKNOWN,
\* and whenever the effective pause_after is UNKNOWN a leader invocation
\* completes (no exception) and leaves the Blocked app status that asks for
\* "all", "first" or "none", with or without a refresh in progress.
C13_UnknownSurfacedAsBlocked ==
    /\ PauseAfter("bogus") = "unknown"
    /\ pod[leader] = "up" =>
          \A ev \in Events, hookOK \in BOOLEAN, setNext \in BOOLEAN :
              EffectivePauseAfter(leader) = "unknown" =>
                  \A o \in {Outcome(leader, ev, hookOK, setNext)} :
                      /\ o.raisedAt = "none"
                      /\ AppStatusLeft(o) = "blocked-config"

\* C14 as stated: every write to the partition is performed by an invocation
\* running on the leader (no event on another unit changes the partition).
C14_SingleWriterAsStated ==
    \A u \in UpUnits \ {leader}, ev \in Events, hookOK \in BOOLEAN, setNext \in BOOLEAN :
        Outcome(u, ev, hookOK, setNext).partition = partition

\* C14 amended: an invocation on a unit that is not the leader writes the
\* partition only in the stop-event guard: in a stop event, with no
\* tearing-down marker, raising it to the unit's own number; every other
\* write (every lowering) is made on the leader.
C14_OnlyStopGuardWritesOffLeader ==
    \A u \in UpUnits \ {leader}, ev \in Events, hookOK \in BOOLEAN, setNext \in BOOLEAN :
        \A o \in {Outcome(u, ev, hookOK, setNext)} :
            o.partition # partition =>
                /\ ev.kind = "stop" /\ ~tearingDown[u]
                /\ partition < u /\ o.partition = u

\* a unit that is not the leader has stopped for its refresh and raised the
\* partition to its number
C14_Witness ==
    \E u \in Units \ {leader} :
        /\ pod[u] = "down" /\ podRev[u] # appRev /\ ~tearingDown[u]
        /\ partition = u /\ u > leader

\* ------------------------------------------------------ trust withdrawn
\* the operator grants or withdraws trust (`juju trust app --scope=cluster`,
\* `juju trust app --remove`)
JujuTrust ==
    /\ trusted' = ~trusted
    /\ UNCHANGED << partition, appRev, currentRev, revBundle, pod, podRev, replicas,
                    leader, config, dbPause, dbNext, dbStarted, appDb, localStarted,
                    tearingDown, restarts, configChanges, call, running >>

NextTrust ==
    \/ JujuTrust
    \/ \E b \in Bundles : FirstRefresh(b)
    \/ \E u \in Ordinals, hookOK \in BOOLEAN : RollingStop(u, hookOK)
    \/ \E u \in Ordinals : PodStart(u)
    \/ \E u \in Ordinals, hookOK \in BOOLEAN, setNext \in BOOLEAN :
            HookEvent(u, hookOK, setNext)
    \/ \E u \in Ordinals, ev \in Events, hookOK \in BOOLEAN, setNext \in BOOLEAN :
            ActionEvent(u, ev, hookOK, setNext)

TrustSpec == Init /\ [][NextTrust]_vars

\* C15: when the access review denies patching the StatefulSet, an invocation
\* on any unit for any event (a stop event included) aborts with the
\* not-trusted condition, leaves the partition and the peer databags as they
\* were, and on the leader sets the Blocked app status that asks for juju trust.
C15_NotTrustedAborts ==
    ~trusted =>
        \A u \in UpUnits, ev \in Events, hookOK \in BOOLEAN, setNext \in BOOLEAN :
            \A o \in {Outcome(u, ev, hookOK, setNext)} :
                /\ o.raisedAt = "not_trusted"
                /\ o.partition = partition
                /\ o.dbPause = dbPause /\ o.dbNext = dbNext
                /\ o.dbStarted = dbStarted /\ o.appDb = appDb
                /\ (u = leader <=> o.trustStatus = "blocked-trust")

\* without trust a unit has run its stop event during a refresh and the
\* partition has stayed below its number
C15_Witness ==
    /\ ~trusted /\ InProgress
    /\ \E u \in Units : pod[u] = "down" /\ podRev[u] # appRev /\ partition < u

\* ---------------------------------------------- pods deleted during a refresh
\* a pod is deleted outside the rolling update (eviction, node drain, kubectl
\* delete): the unit runs its stop event and the pod is re-created
PodDeleted(u, hookOK) ==
    /\ pod[u] = "up"
    /\ u < replicas
    /\ restarts < MaxRestarts
    /\ restarts' = restarts + 1
    /\ Event(u, [kind |-> "stop"], hookOK, FALSE)
    /\ pod' = [pod EXCEPT ![u] = "down"]
    /\ UNCHANGED << appRev, currentRev, revBundle, podRev, replicas, leader, config,
                    configChanges, trusted, call, running >>

NextRestart ==
    \/ \E b \in Bundles : FirstRefresh(b)
    \/ \E u \in Ordinals, hookOK \in BOOLEAN : RollingStop(u, hookOK)
    \/ \E u \in Ordinals, hookOK \in BOOLEAN : PodDeleted(u, hookOK)
    \/ \E u \in Ordinals : PodStart(u)
    \/ \E u \in Ordinals, hookOK \in BOOLEAN, setNext \in BOOLEAN :
            HookEvent(u, hookOK, setNext)

RestartSpec == Init /\ [][NextRestart]_vars

\* C16: when a unit is refreshed (its pod is re-created on the app's
\* controller revision, which it did not have), next_unit_allowed_to_refresh
\* reads False on that unit: the value in its databag is not its new
\* revision, so the leader does not count it either, until the unit sets
\* the attribute again.
C16_FlagResetOnRefresh ==
    [][\A u \in Ordinals :
         (podRev'[u] # podRev[u] /\ podRev'[u] = appRev) => dbNext'[u] # podRev'[u]]_vars

\* this step is an event on the first unit, during a refresh, in which the
\* workload container check, the compatibility check and the pre-refresh
\* checks all ran and succeeded
ChecksSucceededStep ==
    /\ InProgress
    /\ UNCHANGED envVars
    /\ \E u \in UpUnits \cap {SortedUnits[1]}, ev \in Events, setNext \in BOOLEAN :
        \E o \in {Outcome(u, ev, TRUE, setNext)} :
            /\ o.raisedAt = "none"
            /\ o.start.marked = "passed"
            /\ o.start.containerChecked /\ o.start.compatCalled /\ o.start.hookCalled
            /\ partition' = o.partition
            /\ tearingDown' = [tearingDown EXCEPT ![u] = o.tearingDown]
            /\ localStarted' = [localStarted EXCEPT ![u] = o.localStarted]
            /\ dbPause' = o.dbPause /\ dbNext' = o.dbNext
            /\ dbStarted' = o.dbStarted /\ appDb' = o.appDb

\* some event that can be delivered in this state invokes the compatibility
\* predicate or the pre-refresh checks
ChecksInvoked ==
    \E u \in UpUnits, ev \in Events, hookOK \in BOOLEAN :
        \E o \in {Outcome(u, ev, hookOK, FALSE)} :
            o.start.compatCalled \/ o.start.hookCalled

\* C17: once all checks and preparations have succeeded in an event on the
\* first unit, no event delivered next (same app controller revision, no
\* scale-down) invokes the compatibility predicate or the pre-refresh checks.
C17_ChecksNotRunAgain ==
    [][ChecksSucceededStep => ~ChecksInvoked']_vars

\* ------------------------------------- pre-refresh checks under fairness
\* one refresh with no operator action; the config option may change
NextRetry ==
    \/ \E b \in Bundles : FirstRefresh(b)
    \/ \E value \in ConfigValues : ConfigChange(value)
    \/ \E u \in Ordinals, hookOK \in BOOLEAN : RollingStop(u, hookOK)
    \/ \E u \in Ordinals : PodStart(u)
    \/ \E u \in Ordinals, hookOK \in BOOLEAN, setNext \in BOOLEAN :
            HookEvent(u, hookOK, setNext)

\* Kubernetes replaces and re-creates pods, Juju delivers events, and the
\* charm's checks eventually succeed
ProgressRetry ==
    \/ \E u \in Ordinals, hookOK \in BOOLEAN : RollingStop(u, hookOK)
    \/ \E u \in Ordinals : PodStart(u)
    \/ \E u \in Ordinals, hookOK \in BOOLEAN : HookEvent(u, hookOK, TRUE)

RetrySpec == Init /\ [][NextRetry]_vars /\ WF_vars(ProgressRetry)

\* the first unit is refreshed to versions that pass the container and
\* compatibility checks, and the refresh has not started: an event on the
\* first unit runs the pre-refresh checks
PrecheckPending ==
    /\ InProgress /\ GatesPass
    /\ podRev[SortedUnits[1]] = appRev
    /\ NotStarted(SortedUnits[1])

\* some unit's databag records that the refresh to the app's revision started
StartRecorded == \E v \in Units : appRev \in dbStarted[v]

\* an event in which the pre-refresh checks fail sets the Blocked unit status
\* and marks nothing; the same event with succeeding checks marks the
\* refresh as started
PrecheckFailureNotMarked ==
    \A u \in UpUnits, ev \in Events, setNext \in BOOLEAN :
        \A bad \in {Outcome(u, ev, FALSE, setNext)} :
            bad.start.hookCalled =>
                /\ bad.start.gateFailed = "precheck"
                /\ bad.start.unitBlocked
                /\ bad.start.marked = "none" /\ ~NewlyMarked(u, bad)
                /\ \A good \in {Outcome(u, ev, TRUE, setNext)} :
                      /\ good.start.hookCalled /\ good.start.marked = "passed"
                      /\ good.localStarted
                      /\ good.raisedAt = "none" => podRev[u] \in good.dbStarted[u]

\* C18: when the pre-refresh checks raise PrecheckFailed the unit's
\* higher-priority status is Blocked and the refresh is not marked started; a
\* later event in which they succeed marks it; with events delivered fairly
\* and checks that eventually succeed, the start of the refresh is recorded.
C18_FailedPrecheckRetried ==
    /\ []PrecheckFailureNotMarked
    /\ PrecheckPending ~> StartRecorded

\* the pre-refresh checks are pending on the first unit, and an event in
\* which they fail leaves them pending
C18_Witness ==
    /\ PrecheckPending
    /\ pod[SortedUnits[1]] = "up"
    /\ \E o \in {Outcome(SortedUnits[1], [kind |-> "hook"], FALSE, FALSE)} :
          /\ o.start.gateFailed = "precheck"
          /\ o.partition = partition /\ o.dbStarted = dbStarted
          /\ o.localStarted = localStarted[SortedUnits[1]]

\* C19 as stated: an invocation that handles the pre-refresh-check action
\* never marks the refresh as started.
C19_ActionNeverMarksAsStated ==
    \A u \in UpUnits, hookOK \in BOOLEAN :
        ~NewlyMarked(u, Outcome(u, [kind |-> "pre-refresh-check"], hookOK, FALSE))

\* C19 amended: the pre-refresh-check action calls the
\* before-any-units-refreshed hook if and only if the unit is the leader and no
\* refresh is in progress; otherwise the action is failed and the hook is not
\* called; and the invocation marks the refresh as started exactly when an
\* ordinary event in its place would (never on account of the action).
C19_PreRefreshCheckAction ==
    \A u \in UpUnits, hookOK \in BOOLEAN, setNext \in BOOLEAN :
        \A o \in {Outcome(u, [kind |-> "pre-refresh-check"], hookOK, setNext)} :
            /\ o.preCheckHook => (u = leader /\ ~InProgress /\ ~o.preCheckRefused)
            /\ o.raisedAt = "none" =>
                  /\ (u = leader /\ ~InProgress) => o.preCheckHook
                  /\ (u # leader \/ InProgress) => o.preCheckRefused
            /\ \A h \in {Outcome(u, [kind |-> "hook"], hookOK, setNext)} :
                  /\ o.start = h.start
                  /\ o.localStarted = h.localStarted
                  /\ o.dbStarted = h.dbStarted

\* during a refresh the pre-refresh-check action, run on the first unit, is
\* failed while the same invocation passes the checks and marks the refresh
C19_Witness ==
    /\ InProgress /\ pod[SortedUnits[1]] = "up"
    /\ \E o \in {Outcome(SortedUnits[1], [kind |-> "pre-refresh-check"], TRUE, FALSE)} :
          /\ o.preCheckRefused /\ ~o.preCheckHook
          /\ o.start.marked = "passed"

\* the force-refresh-start events with parameters <<container, compat, checks>>
ForceEvent(f) ==
    [kind |-> "force-refresh-start", check_workload_container |-> f[1],
     check_compatibility |-> f[2], run_pre_refresh_checks |-> f[3]]

\* C20: a force-refresh-start action run on a unit other than units[0], or
\* while no refresh is in progress, or with all three parameters true, is
\* failed; in that invocation no gate is skipped and the refresh is marked as
\* started only if an ordinary event in its place would mark it.
C20_InvalidForceRefused ==
    \A u \in UpUnits, hookOK \in BOOLEAN :
        \A h \in {Outcome(u, [kind |-> "hook"], hookOK, FALSE)} :
            \A f \in ForceParams :
                (u # SortedUnits[1] \/ ~InProgress \/ (f[1] /\ f[2] /\ f[3])) =>
                    \A o \in {Outcome(u, ForceEvent(f), hookOK, FALSE)} :
                        o.raisedAt \notin {"not_trusted", "pause_after"} =>
                            /\ o.start.actionFailed
                            /\ ~o.start.forced
                            /\ [o.start EXCEPT !.actionFailed = FALSE] = h.start
                            /\ o.localStarted = h.localStarted
                            /\ o.dbStarted = h.dbStarted
                            /\ o.partition = h.partition

\* the action with all three parameters true runs on units[0] during a
\* refresh that has not started: it is failed, every gate runs and passes,
\* and the refresh is marked as started as by an ordinary event
C20_Witness ==
    /\ InProgress /\ pod[SortedUnits[1]] = "up"
    /\ \E o \in {Outcome(SortedUnits[1], ForceEvent(<<TRUE, TRUE, TRUE>>), TRUE, FALSE)} :
          /\ o.start.actionFailed /\ ~o.start.forced
          /\ o.start.containerChecked /\ o.start.compatCalled /\ o.start.hookCalled
          /\ o.start.marked = "passed"

\* C21: a resume-refresh action run on the leader while no refresh is in
\* progress is failed with "No refresh in progress", and the invocation
\* leaves the partition at 0.
C21_ResumeAtRestFails ==
    \A c \in BOOLEAN, hookOK \in BOOLEAN, setNext \in BOOLEAN :
        (~InProgress /\ pod[leader] = "up") =>
            \A o \in {Outcome(leader, [kind |-> "resume-refresh",
                                       check_health_of_refreshed_units |-> c],
                               hookOK, setNext)} :
                o.raisedAt \notin {"not_trusted", "pause_after"} =>
                    /\ o.first.actionFailed
                    /\ o.first.failure = "no_refresh_in_progress"
                    /\ o.partition = 0

\* a refresh has completed, the partition is above 0 after a pod was stopped,
\* and the leader is up to run the action
C21_Witness ==
    /\ ~InProgress /\ appRev > 1 /\ pod[leader] = "up" /\ partition > 0
    /\ \E o \in {Outcome(leader, [kind |-> "resume-refresh",
                                   check_health_of_refreshed_units |-> TRUE],
                           TRUE, FALSE)} :
          o.first.failure = "no_refresh_in_progress" /\ o.partition = 0

\* ------------------------------------------- library functions on their own
programVars == << partition, appRev, currentRev, revBundle, pod, podRev, replicas,
                  leader, config, dbPause, dbNext, dbStarted, appDb, localStarted,
                  tearingDown, restarts, configChanges, trusted, running >>

\* the strings a pause_after_unit_refresh_config key can hold
PauseAfterStrings == ConfigValues \cup {"unknown"}

ValueLists == UNION {[1 .. n -> PauseAfterStrings] : n \in 1 .. MaxValues}

\* max(_PauseAfter(value) for value in pause_after_values)
MaxPauseAfter(values) ==
    /\ call = NoCall
    /\ call' = [fn |-> "max", args |-> values,
                result |-> PauseMaxSeq([i \in DOMAIN values |-> PauseAfter(values[i])])]
    /\ UNCHANGED programVars

\* the function returns
Return ==
    /\ call # NoCall
    /\ call' = NoCall
    /\ UNCHANGED programVars

\* charm version strings: two tracks, three releases, a development build,
\* a released version and a post-release of each
VersionStrings ==
    {VersionString(track, rel, suffix) :
        track \in {"14", "16"},
        rel \in {<<1, 0, 0>>, <<1, 1, 0>>, <<2, 0, 0>>},
        suffix \in {".dev0", "", ".post1", "-1"}}

\* _OriginalVersions values
OriginalVersionsValues ==
    [ workload : {"w1", "w2"}, workload_container : {"sha256:d1", "sha256:d2"},
      charm : {CharmVersion(s) : s \in VersionStrings},
      charm_revision : {"ch:amd64/jammy/app-k8s-1", "ch:amd64/jammy/app-k8s-2"} ]

\* original_versions.write_to_app_databag(databag) followed by
\* _OriginalVersions.from_app_databag(databag)
RoundTrip(original_versions) ==
    /\ call = NoCall
    /\ call' = [fn |-> "round_trip", args |-> original_versions,
                result |-> FromAppDatabag(
                    WriteToAppDatabag(original_versions.workload,
                                      original_versions.workload_container,
                                      original_versions.charm,
                                      original_versions.charm_revision))]
    /\ UNCHANGED programVars

\* every comparison of a with b, and b > a, b < a
Compare(a, b) ==
    /\ call = NoCall
    /\ call' = [fn |-> "compare", args |-> <<a, b>>,
                result |-> [ eq |-> CharmVersionEq(a, b),
                             gt |-> Ordering(a, b, CharmVersionGt(a, b)),
                             ge |-> Ordering(a, b, CharmVersionGe(a, b)),
                             lt |-> Ordering(a, b, CharmVersionLt(a, b)),
                             le |-> Ordering(a, b, CharmVersionLe(a, b)),
                             swapped_gt |-> Ordering(b, a, CharmVersionGt(b, a)),
                             swapped_lt |-> Ordering(b, a, CharmVersionLt(b, a)) ]]
    /\ UNCHANGED programVars

\* cls.is_compatible(old_charm_version=..., new_charm_version=...,
\* old_workload_version=..., new_workload_version=...)
IsCompatibleApplied(old, new, old_workload, new_workload) ==
    /\ call = NoCall
    /\ call' = [fn |-> "is_compatible", args |-> <<old, new, old_workload, new_workload>>,
                result |-> IsCompatibleCall(old, new, old_workload, new_workload)]
    /\ UNCHANGED programVars

NextLibrary ==
    \/ \E old \in VersionStrings, new \in VersionStrings, new_workload \in {"w1", "w2"} :
            IsCompatibleApplied(CharmVersion(old), CharmVersion(new), "w1", new_workload)
    \/ \E a \in VersionStrings, b \in VersionStrings :
            Compare(CharmVersion(a), CharmVersion(b))
    \/ \E values \in ValueLists : MaxPauseAfter(values)
    \/ \E original_versions \in OriginalVersionsValues : RoundTrip(original_versions)
    \/ Return

LibrarySpec == Init /\ [][NextLibrary]_vars

PauseAfterValues == {"none", "first", "all", "unknown"}

PauseMax2(a, b) == PauseMaxSeq(<<a, b>>)

Reversed(seq) == [i \in DOMAIN seq |-> seq[Len(seq) + 1 - i]]

\* C22: the maximum of two _PauseAfter values is commutative and associative;
\* the maximum of a collection does not depend on its order and equals the
\* maximum of the maxima of its two parts; and the maximum of a non-empty
\* collection that contains UNKNOWN is UNKNOWN.
C22_PauseMaxAlgebra ==
    /\ \A a \in PauseAfterValues, b \in PauseAfterValues :
            PauseMax2(a, b) = PauseMax2(b, a)
    /\ \A a \in PauseAfterValues, b \in PauseAfterValues, c \in PauseAfterValues :
            PauseMax2(PauseMax2(a, b), c) = PauseMax2(a, PauseMax2(b, c))
    /\ call.fn = "max" =>
            \A vs \in {[i \in DOMAIN call.args |-> PauseAfter(call.args[i])]} :
                /\ call.result = PauseMaxSeq(Reversed(vs))
                /\ \A k \in 1 .. (Len(vs) - 1) :
                        call.result = PauseMax2(PauseMaxSeq(SubSeq(vs, 1, k)),
                                                PauseMaxSeq(SubSeq(vs, k + 1, Len(vs))))
                /\ (\E i \in DOMAIN vs : vs[i] = "unknown") => call.result = "unknown"

\* max() was applied to three values with an unrecognized one in the middle
C22_Witness ==
    /\ call.fn = "max"
    /\ call.args = <<"all", "bogus", "first">>
    /\ call.result = "unknown"

\* C23: writing an _OriginalVersions value to the app databag and reading it
\* back does not raise and gives a value equal to the original in workload,
\* workload_container, charm (CharmVersion.__eq__) and charm_revision.
C23_OriginalVersionsRoundTrip ==
    call.fn = "round_trip" =>
        /\ ~call.result.raised
        /\ call.result.workload = call.args.workload
        /\ call.result.workload_container = call.args.workload_container
        /\ CharmVersionEq(call.result.charm, call.args.charm)
        /\ call.result.charm_revision = call.args.charm_revision

\* a value whose charm version is a development build went through the databag
C23_Witness ==
    /\ call.fn = "round_trip"
    /\ call.args.charm.version = VersionString("16", <<1, 1, 0>>, ".dev0")
    /\ ~call.args.charm.released
    /\ ~call.result.raised

\* the number of true statements among three
CountTrue(x, y, z) ==
    (IF x THEN 1 ELSE 0) + (IF y THEN 1 ELSE 0) + (IF z THEN 1 ELSE 0)

\* C24: within one track the ordering of CharmVersion is total: exactly one
\* of a < b, a == b, a > b holds, a <= b and a >= b agree with them, and a < b
\* is the same as b > a (so a < b and b < a never hold together); between
\* different tracks every ordering comparison raises ValueError.
C24_OrderingTotalWithinTrack ==
    call.fn = "compare" =>
        \A r \in {call.result} :
            IF call.args[1].track = call.args[2].track
            THEN /\ CountTrue(r.lt = "True", r.eq, r.gt = "True") = 1
                 /\ (r.le = "True") <=> (r.lt = "True" \/ r.eq)
                 /\ (r.ge = "True") <=> (r.gt = "True" \/ r.eq)
                 /\ r.lt = r.swapped_gt
                 /\ r.gt = r.swapped_lt
            ELSE /\ r.lt = "ValueError" /\ r.gt = "ValueError"
                 /\ r.le = "ValueError" /\ r.ge = "ValueError"

\* C25: the baseline compatibility predicate returns False unless the old and
\* the new charm version are both released and have the same major; when they
\* are and do, it returns True exactly when new >= old (and False otherwise).
C25_BaselineCompatibility ==
    call.fn = "is_compatible" =>
        \A old \in {call.args[1]}, new \in {call.args[2]} :
            /\ call.result \in {"True", "False"}
            /\ ~(old.released /\ new.released /\ old.major = new.major)
                    => call.result = "False"
            /\ (old.released /\ new.released /\ old.major = new.major)
                    => (call.result = "True" <=> CharmVersionGe(new, old))

\* ----------------------------------------- reference for the target partition
\* the highest-ordinal unit whose controller revision differs from the app's
ReferenceNext == MaxOf({u \in Units : podRev[u] # appRev})

UnitsAbove(n) == {v \in Units : v > n}

ReferenceAllow(ev, refresh_started, pause_after, nextDb) ==
    \/ ev.kind = "resume-refresh" /\ ~ev.check_health_of_refreshed_units
    \/ /\ refresh_started
       /\ \A v \in UnitsAbove(ReferenceNext) : nextDb[v] = appRev
       /\ \/ pause_after = "none"
          \/ pause_after = "first" /\ Cardinality(UnitsAbove(ReferenceNext)) >= 2
          \/ ev.kind = "resume-refresh"

ReferenceTarget(ev, refresh_started, pause_after, nextDb) ==
    IF ReferenceAllow(ev, refresh_started, pause_after, nextDb) THEN ReferenceNext
    ELSE IF UnitsAbove(ReferenceNext) = {} THEN ReferenceNext
    ELSE CHOOSE v \in UnitsAbove(ReferenceNext) : \A w \in UnitsAbove(ReferenceNext) : v <= w

\* the outcomes of the pre-refresh checks that an event on unit u can see:
\* they are run on the first unit to refresh only
ChecksOutcomes(u) == IF u = SortedUnits[1] THEN BOOLEAN ELSE {TRUE}

\* C26: in a leader invocation with a refresh in progress, the target
\* partition computed by _set_partition_and_app_status (in the call made by
\* __init__ and in the call made when next_unit_allowed_to_refresh is set)
\* equals the reference: the next unit to refresh if it is allowed, otherwise
\* the unit immediately above it.
C26_TargetEqualsReference ==
    (InProgress /\ pod[leader] = "up") =>
        \A ev \in Events, hookOK \in ChecksOutcomes(leader) :
            \A o \in {Outcome(leader, ev, hookOK, TRUE)} :
                /\ o.first.target # -1 =>
                      o.first.target = ReferenceTarget(ev, o.start.refresh_started,
                                                       o.pause_after, dbNext)
                /\ o.second.target # -1 =>
                      o.second.target =
                          ReferenceTarget(ev, o.start.refresh_started, o.pause_after,
                                          [dbNext EXCEPT ![leader] = podRev[leader]])

\* with pause_after FIRST and one unit refreshed and healthy, the leader's
\* target stays at the refreshed unit; with two it moves to the next unit
C26_Witness ==
    /\ InProgress /\ pod[leader] = "up" /\ config = "first"
    /\ ReferenceNext = 0
    /\ \E o \in {Outcome(leader, [kind |-> "hook"], TRUE, FALSE)} :
          /\ o.pause_after = "first" /\ o.start.refresh_started
          /\ o.first.target = 0
          /\ ReferenceAllow([kind |-> "hook"], TRUE, "first", dbNext)

\* no unit's refresh_started_... list, as this invocation sees and leaves the
\* lists, holds the app's controller revision
NotMarkedStarted(o) == \A v \in Units : appRev \notin o.hashesSeen[v]

\* the units that are still to refresh other than the first unit to refresh
LaterUnitsToRefresh == {w \in Units : podRev[w] # appRev /\ w # SortedUnits[1]}

\* the units already on the app's controller revision
RefreshedUnits == {v \in Units : podRev[v] = appRev}

\* C27 as stated: as long as the refresh is not marked as started, after a
\* leader invocation (other than a resume-refresh with
\* check-health-of-refreshed-units=false) the partition is at or above the
\* ordinal of the lowest already-refreshed unit.
C27_PartitionStaysAboveAsStated ==
    (InProgress /\ pod[leader] = "up" /\ RefreshedUnits # {}) =>
        \A o \in {Outcome(leader, [kind |-> "hook"], TRUE, TRUE)} :
            NotMarkedStarted(o) =>
                \A v \in RefreshedUnits : \E w \in RefreshedUnits : w <= v /\ o.partition >= w

\* C27: as long as the refresh is not marked as started for the app's
\* controller revision, a leader invocation that writes the partition writes
\* a value above every second or later unit to refresh, unless it handles a
\* resume-refresh action with check-health-of-refreshed-units=false.
C27_NotStartedHoldsLaterUnits ==
    (InProgress /\ pod[leader] = "up") =>
        \A ev \in Events, hookOK \in ChecksOutcomes(leader) :
            ~(ev.kind = "resume-refresh" /\ ~ev.check_health_of_refreshed_units) =>
                \A o \in {Outcome(leader, ev, hookOK, TRUE)} :
                    NotMarkedStarted(o) =>
                        /\ (o.first.target # -1 /\ o.first.wrote) =>
                                \A w \in LaterUnitsToRefresh : o.first.target > w
                        /\ (o.second.target # -1 /\ o.second.wrote) =>
                                \A w \in LaterUnitsToRefresh : o.second.target > w

\* the first unit has refreshed, the refresh is not marked as started, and a
\* leader event keeps the partition at the first unit
C27_Witness ==
    /\ InProgress /\ pod[leader] = "up"
    /\ podRev[SortedUnits[1]] = appRev /\ LaterUnitsToRefresh # {}
    /\ \A v \in Units : appRev \notin dbStarted[v]
    /\ \E o \in {Outcome(leader, [kind |-> "hook"], TRUE, TRUE)} :
          /\ NotMarkedStarted(o)
          /\ o.first.target = SortedUnits[1]
          /\ o.partition = SortedUnits[1]

\* the up-to-date units above the next unit to refresh that have not set
\* next_unit_allowed_to_refresh for the app's controller revision
NotAllowingUnits(nextDb) == {v \in UnitsAbove(ReferenceNext) : nextDb[v] # appRev}

ResumeChecked == [kind |-> "resume-refresh", check_health_of_refreshed_units |-> TRUE]

ContainerOK(u) == Installed(u).container = Installed(u).pinned_container

CompatOK(u) ==
    \A original_versions \in {FromAppDatabag(appDb)} :
        IsCompatible(original_versions.charm, CharmVersion(Installed(u).charm),
                     original_versions.workload, Installed(u).workload)

SkipsContainer(u, ev) == ValidForce(u, ev) /\ ~ev.check_workload_container

SkipsCompat(u, ev) == ValidForce(u, ev) /\ ~ev.check_compatibility

SkipsHook(u, ev) == ValidForce(u, ev) /\ ~ev.run_pre_refresh_checks

\* C29: when the first unit runs the gates (refresh in progress and not
\* started, no rollback), they are evaluated in the order workload container,
\* compatibility, pre-refresh checks: a gate skipped by a valid
\* force-refresh-start is not evaluated and does not block; every other gate
\* is evaluated if and only if all gates before it were skipped or passed;
\* and the refresh is marked as started if and only if every gate was skipped
\* or passed.
C29_GatesInOrder ==
    \A u \in UpUnits \cap {SortedUnits[1]} :
        (InProgress /\ NotStarted(u) /\ ~RollbackApplies(u)
                    /\ ~FromAppDatabag(appDb).raised) =>
            \A ev \in Events, hookOK \in BOOLEAN :
                \A o \in {Outcome(u, ev, hookOK, FALSE)} :
                    o.raisedAt \notin {"not_trusted", "pause_after"} =>
                        \A pass1 \in {SkipsContainer(u, ev) \/ ContainerOK(u)},
                           pass2 \in {SkipsCompat(u, ev) \/ CompatOK(u)},
                           pass3 \in {SkipsHook(u, ev) \/ hookOK} :
                            /\ o.start.containerChecked <=> ~SkipsContainer(u, ev)
                            /\ o.start.compatCalled <=> (~SkipsCompat(u, ev) /\ pass1)
                            /\ o.start.hookCalled <=>
                                    (~SkipsHook(u, ev) /\ pass1 /\ pass2)
                            /\ (o.start.marked = "passed") <=> (pass1 /\ pass2 /\ pass3)
                            /\ o.start.marked # "rollback"
                            /\ o.start.gateFailed =
                                    (IF ~pass1 THEN "container"
                                     ELSE IF ~pass2 THEN "compatibility"
                                     ELSE IF ~pass3 THEN "precheck" ELSE "none")
                            /\ (pass1 /\ pass2 /\ pass3) =>
                                    /\ o.localStarted
                                    /\ o.raisedAt = "none" => podRev[u] \in o.dbStarted[u]

\* the first unit runs a container that is not the pinned one; a
\* force-refresh-start with check-workload-container=false skips that gate,
\* the other two gates run and pass, and the refresh is marked as started
C29_Witness ==
    /\ InProgress /\ pod[SortedUnits[1]] = "up"
    /\ NotStarted(SortedUnits[1]) /\ ~ContainerOK(SortedUnits[1])
    /\ \E o \in {Outcome(SortedUnits[1], ForceEvent(<<FALSE, TRUE, TRUE>>), TRUE, FALSE)} :
          /\ ~o.start.containerChecked /\ o.start.compatCalled /\ o.start.hookCalled
          /\ o.start.marked = "passed" /\ o.start.forced
          /\ o.localStarted
    /\ \E o \in {Outcome(SortedUnits[1], [kind |-> "hook"], TRUE, FALSE)} :
          /\ o.start.gateFailed = "container"
          /\ ~o.start.compatCalled /\ ~o.start.hookCalled

\* calls of run_pre_refresh_checks_after_1_unit_refreshed in one invocation:
\* by _start_refresh, and by the default
\* run_pre_refresh_checks_before_any_units_refreshed, which calls it
AfterOneUnitHookCalled(o) == o.start.hookCalled \/ o.preCheckHook

\* C30 as stated: the container check, the compatibility predicate and the
\* after-1-unit-refreshed hook are evaluated only in invocations on units[0],
\* while a refresh is in progress and no unit's refresh_started_... list
\* holds the app's controller revision.
C30_GatesOnlyOnFirstUnitAsStated ==
    \A u \in UpUnits, hookOK \in BOOLEAN :
        \A o \in {Outcome(u, [kind |-> "pre-refresh-check"], hookOK, FALSE)} :
            (o.start.containerChecked \/ o.start.compatCalled \/ AfterOneUnitHookCalled(o)) =>
                /\ u = SortedUnits[1] /\ InProgress
                /\ \A v \in Units : appRev \notin dbStarted[v]

\* C30: _start_refresh evaluates the container check, the compatibility
\* predicate and the after-1-unit-refreshed hook only in invocations on
\* units[0], while a refresh is in progress and no unit's refresh_started_...
\* list holds the app's controller revision; the only other call of the hook
\* is the one made through the before-any-units-refreshed checks of a
\* pre-refresh-check action, on the leader while no refresh is in progress.
C30_GatesOnlyOnFirstUnit ==
    \A u \in UpUnits, ev \in Events :
        \A o \in {Outcome(u, ev, hookOK, FALSE) : hookOK \in ChecksOutcomes(u)} :
            /\ (o.start.containerChecked \/ o.start.compatCalled \/ o.start.hookCalled) =>
                  /\ u = SortedUnits[1] /\ InProgress
                  /\ \A v \in Units : appRev \notin dbStarted[v]
            /\ o.preCheckHook =>
                  /\ ev.kind = "pre-refresh-check" /\ u = leader /\ ~InProgress
                  /\ ~o.start.containerChecked /\ ~o.start.compatCalled
                  /\ ~o.start.hookCalled

\* during a refresh that has not started, an event on units[0] evaluates the
\* gates and the same event on another unit evaluates none
C30_Witness ==
    /\ InProgress /\ pod[SortedUnits[1]] = "up" /\ pod[leader] = "up"
    /\ leader # SortedUnits[1]
    /\ \E o \in {Outcome(SortedUnits[1], [kind |-> "hook"], TRUE, FALSE)} :
          o.start.containerChecked /\ o.start.compatCalled /\ o.start.hookCalled
    /\ \E o \in {Outcome(leader, [kind |-> "hook"], TRUE, FALSE)} :
          ~o.start.containerChecked /\ ~o.start.compatCalled /\ ~AfterOneUnitHookCalled(o)

\* every event on every unit evaluates "refresh started" as false unless the
\* event itself passes the gates (or is forced) or recognises a rollback
EvaluatedNotStarted ==
    \A u \in UpUnits, ev \in Events :
        \A o \in {Outcome(u, ev, hookOK, FALSE) : hookOK \in ChecksOutcomes(u)} :
            o.start.refresh_started => o.start.marked \in {"rollback", "passed"}

\* C31: right after a `juju refresh` has changed the app's controller
\* revision, the refresh is evaluated as not started by every unit, whatever
\* hashes are recorded and whatever local markers exist from earlier
\* revisions.
C31_NewRefreshInvalidatesRecord ==
    [][appRev' # appRev => EvaluatedNotStarted']_vars

\* a second `juju refresh` was run while a unit holds the record and the
\* local marker of the first refresh
C31_Witness ==
    /\ appRev = 3 /\ InProgress
    /\ \E v \in UpUnits : podRev[v] = 2 /\ localStarted[v] /\ 2 \in dbStarted[v]
    /\ \A v \in Units : 3 \notin dbStarted[v]
    /\ EvaluatedNotStarted

\* ------------------------------------------------------------- scale up
\* a settled deployment of NumUnits - 1 units: the highest ordinal has no
\* pod and no unit databag yet
InitScaleUp ==
    /\ partition = 0
    /\ appRev = 1
    /\ currentRev = 1
    /\ revBundle = [r \in Revs |-> "v1"]
    /\ pod = [u \in Ordinals |-> IF u = NumUnits - 1 THEN "gone" ELSE "up"]
    /\ podRev = [u \in Ordinals |-> 1]
    /\ replicas = NumUnits - 1
    /\ leader = 1
    /\ config = "none"
    /\ dbPause = [u \in Ordinals |-> IF u = NumUnits - 1 THEN None ELSE config]
    /\ dbNext = [u \in Ordinals |-> IF u = NumUnits - 1 THEN NoRev ELSE 1]
    /\ dbStarted = [u \in Ordinals |-> {}]
    /\ appDb = WriteToAppDatabag("w1", "sha256:d1", CharmVersion(BundleTable["v1"].charm), "ch:amd64/jammy/app-k8s-1")
    /\ localStarted = [u \in Ordinals |-> FALSE]
    /\ tearingDown = [u \in Ordinals |-> FALSE]
    /\ restarts = 0
    /\ configChanges = 0
    /\ trusted = TRUE
    /\ call = NoCall
    /\ running = [u \in Ordinals |-> Idle]

\* `juju add-unit`: the StatefulSet creates the pod of the next ordinal, on
\* the update revision at or above the partition; the new unit has not run
\* an event yet, so its unit databag is empty
ScaleUp ==
    /\ replicas < NumUnits
    /\ pod[replicas] = "gone"
    /\ replicas' = replicas + 1
    /\ LET rev == IF replicas >= partition THEN appRev ELSE currentRev
           revs == [podRev EXCEPT ![replicas] = rev]
           pods == [pod EXCEPT ![replicas] = "up"]
       IN  /\ podRev' = revs
           /\ pod' = pods
           /\ currentRev' = CurrentRevisionAfter(pods, revs)
    /\ UNCHANGED << partition, appRev, revBundle, leader, config, dbPause, dbNext,
                    dbStarted, appDb, localStarted, tearingDown, restarts,
                    configChanges, trusted, call, running >>

NextScaleUp ==
    \/ ScaleUp
    \/ \E b \in Bundles : FirstRefresh(b)
    \/ \E value \in ConfigValues : ConfigChange(value)
    \/ \E u \in Ordinals, hookOK \in BOOLEAN : RollingStop(u, hookOK)
    \/ \E u \in Ordinals : PodStart(u)
    \/ \E u \in Ordinals, hookOK \in BOOLEAN, setNext \in BOOLEAN :
            HookEvent(u, hookOK, setNext)

ScaleUpSpec == InitScaleUp /\ [][NextScaleUp]_vars

\* the preferences found in the peer relation by an invocation on unit u for
\* the units on units[0]'s controller revision, after u has written its own
ReportedPreferences(u) ==
    LET pauseDb == [dbPause EXCEPT ![u] = config]
    IN  {PauseAfter(pauseDb[v]) : v \in {w \in Units : podRev[w] = podRev[SortedUnits[1]]
                                                       /\ pauseDb[w] # None}}

\* the effective pause_after of an invocation on unit u is the highest
\* reported preference; UNKNOWN, with the invocation going on, when there is none
EffectiveIsMaxOrUnknown(u) ==
    \A o \in {Outcome(u, [kind |-> "hook"], TRUE, FALSE)} :
        IF ReportedPreferences(u) = {}
        THEN o.pause_after = "unknown" /\ o.raisedAt = "none"
        ELSE /\ o.pause_after \in ReportedPreferences(u)
             /\ \A q \in ReportedPreferences(u) :
                    PausePriority(q) <= PausePriority(o.pause_after)

\* C32: the effective pause_after is the maximum of the preferences reported
\* by the units on units[0]'s controller revision, units with no reported
\* preference being left out; when none of them has reported a preference
\* the effective value is UNKNOWN and the invocation continues.
C32_EffectivePauseAfter ==
    \A u \in UpUnits : EffectiveIsMaxOrUnknown(u)

\* the first unit to refresh is on the app's revision and cannot pass the
\* gates: the refresh is not recorded as started, it is not a rollback, and
\* the workload container check or the compatibility check fails, so the
\* rollout waits for the operator (force-refresh-start or a rollback)
GateFailedOnFirstUnit ==
    /\ InProgress
    /\ pod[SortedUnits[1]] = "up" /\ podRev[SortedUnits[1]] = appRev
    /\ \A v \in Units : appRev \notin dbStarted[v]
    /\ ~localStarted[SortedUnits[1]]
    /\ ~RollbackApplies(SortedUnits[1])
    /\ ~ContainerOK(SortedUnits[1]) \/ ~CompatOK(SortedUnits[1])

\* C33: while a refresh is in progress and a gate has failed on the first
\* refreshed unit, a leader invocation leaves the Blocked app status,
\* whatever the value of pause_after; it leaves Maintenance only when the
\* rollout can advance without the operator.
C33_BlockedWhenInteractionRequired ==
    (GateFailedOnFirstUnit /\ pod[leader] = "up") =>
        \A o \in {Outcome(leader, [kind |-> "hook"], FALSE, FALSE)} :
            o.raisedAt = "none" => AppStatusLeft(o) = "blocked-refreshing"

\* C34: the partition never exceeds the highest unit ordinal of the
\* application: in every reachable state, across stop events, scale-down and
\* restarts, partition <= ordinal of units[0].
C34_PartitionWithinUnits == partition <= SortedUnits[1]

\* ------------------------------------------- restarts under fair delivery
\* Juju delivers an event to the leader unit
LeaderEvent == \E hookOK \in BOOLEAN, setNext \in BOOLEAN : HookEvent(leader, hookOK, setNext)

\* fair delivery of events to the leader: Juju keeps delivering events
\* (update-status at least) to the leader unit, and Kubernetes re-creates its
\* pod when it was deleted
FairLeader == WF_vars(LeaderEvent) /\ WF_vars(PodStart(leader))

RestartFairSpec == Init /\ [][NextRestart]_vars /\ FairLeader

\* every completed leader invocation that finds no refresh in progress leaves
\* the partition at 0
LeaderResetsAtRest ==
    (~InProgress /\ pod[leader] = "up") =>
        \A ev \in Events, hookOK \in BOOLEAN, setNext \in BOOLEAN :
            \A o \in {Outcome(leader, ev, hookOK, setNext)} :
                o.raisedAt = "none" => o.partition = 0

\* C35: with no refresh in progress the leader resets the partition to 0:
\* every completed leader invocation that observes in_progress = false leaves
\* the partition at 0, so a partition raised by the stop-event guard of a
\* unit that is merely restarting eventually returns to 0 (unless a refresh
\* begins) under fair delivery of events to the leader.
C35_RaisedPartitionReset ==
    /\ []LeaderResetsAtRest
    /\ (partition > 0 /\ ~InProgress) ~> (partition = 0 \/ InProgress)

\* the pod of a unit above the leader was deleted with no refresh in
\* progress: its stop-event guard raised the partition, and the leader is up
\* to reset it
C35_Witness ==
    /\ ~InProgress /\ restarts > 0 /\ partition = NumUnits - 1
    /\ pod[leader] = "up"
    /\ \E o \in {Outcome(leader, [kind |-> "hook"], TRUE, FALSE)} :
          o.raisedAt = "none" /\ o.partition = 0

\* --------------------------- refresh from a charm without this library
\* an application deployed by a charm revision that does not have this
\* library: the peer databags hold none of its keys, the partition is 0
InitLegacy ==
    /\ partition = 0
    /\ appRev = 1
    /\ currentRev = 1
    /\ revBundle = [r \in Revs |-> "v1"]
    /\ pod = [u \in Ordinals |-> "up"]
    /\ podRev = [u \in Ordinals |-> 1]
    /\ replicas = NumUnits
    /\ leader = 1
    /\ config = "none"
    /\ dbPause = [u \in Ordinals |-> None]
    /\ dbNext = [u \in Ordinals |-> NoRev]
    /\ dbStarted = [u \in Ordinals |-> {}]
    /\ appDb = EmptyAppDatabag
    /\ localStarted = [u \in Ordinals |-> FALSE]
    /\ tearingDown = [u \in Ordinals |-> FALSE]
    /\ restarts = 0
    /\ configChanges = 0
    /\ trusted = TRUE
    /\ call = NoCall
    /\ running = [u \in Ordinals |-> Idle]

\* the charm code of unit u has this library: its pod is not on the
\* revision the application was deployed with
HasLibrary(u) == podRev[u] # 1

\* the rolling update deletes a pod whose charm code does not have this
\* library: _Kubernetes.__init__ does not run, nothing guards the partition
LegacyStop(u) ==
    /\ pod[u] = "up"
    /\ ~HasLibrary(u)
    /\ RollingUpdateTarget(u)
    /\ pod' = [pod EXCEPT ![u] = "down"]
    /\ UNCHANGED << partition, appRev, currentRev, revBundle, podRev, replicas, leader,
                    config, dbPause, dbNext, dbStarted, appDb, localStarted,
                    tearingDown, restarts, configChanges, trusted, call, running >>

\* the rolling update deletes a pod whose charm code has this library
LibraryStop(u, hookOK) ==
    /\ HasLibrary(u)
    /\ RollingStop(u, hookOK)

\* a Juju event on a unit whose charm code has this library
LibraryHookEvent(u, hookOK, setNext) ==
    /\ HasLibrary(u)
    /\ HookEvent(u, hookOK, setNext)

NextLegacy ==
    \/ \E b \in Bundles : JujuRefresh(b)
    \/ \E value \in ConfigValues : ConfigChange(value)
    \/ \E u \in Ordinals : LegacyStop(u)
    \/ \E u \in Ordinals, hookOK \in BOOLEAN : LibraryStop(u, hookOK)
    \/ \E u \in Ordinals : PodStart(u)
    \/ \E u \in Ordinals, hookOK \in BOOLEAN, setNext \in BOOLEAN :
            LibraryHookEvent(u, hookOK, setNext)

LegacySpec == InitLegacy /\ [][NextLegacy]_vars

\* a refresh is in progress and the app databag holds no valid original
\* versions, and the first unit to refresh runs this library
OriginalVersionsMissing ==
    /\ InProgress
    /\ FromAppDatabag(appDb).raised
    /\ pod[SortedUnits[1]] = "up" /\ HasLibrary(SortedUnits[1])

\* C36: when a refresh is in progress and the app databag holds no valid
\* original versions, an invocation on the first unit to refresh does not end
\* with an unhandled error: it surfaces a Blocked status, does not mark the
\* refresh as started and does not lower the partition.
C36_MissingOriginalsBlocked ==
    OriginalVersionsMissing =>
        \A hookOK \in BOOLEAN :
            \A o \in {Outcome(SortedUnits[1], [kind |-> "hook"], hookOK, FALSE)} :
                /\ o.raisedAt = "none"
                /\ o.start.unitBlocked
                /\ ~o.start.refresh_started
                /\ o.partition >= partition

\* the resume-refresh action with its parameter
ResumeRefresh(c) == [kind |-> "resume-refresh", check_health_of_refreshed_units |-> c]

\* C37: a resume-refresh action that is reported failed during a refresh (run
\* on a non-leader; pause_after none with the health checks not overridden;
\* refresh not started; an up-to-date unit named unhealthy) has no effect on
\* the rollout: the invocation, the call of _set_partition_and_app_status
\* made when next_unit_allowed_to_refresh is set included, leaves the
\* partition at the value a non-action event leaves in the same state.
C37_FailedResumeHasNoEffect ==
    InProgress =>
        \A u \in UpUnits, c \in BOOLEAN, setNext \in BOOLEAN :
            \A hookOK \in ChecksOutcomes(u) :
                \A o \in {Outcome(u, ResumeRefresh(c), hookOK, setNext)} :
                    o.first.actionFailed =>
                        o.partition = Outcome(u, [kind |-> "hook"], hookOK, setNext).partition

\* ------------------------------------- invocations taken one API call at a time
\* Units run their events in separate pods at the same time.  Here an
\* invocation is a sequence of steps, one per read or patch of the
\* StatefulSet: the stop-event guard reads the partition and then patches it;
\* the leader lists the StatefulSet and the pods, reads the partition and
\* patches it.  running[u] holds the position of unit u's invocation and the
\* values it has read; `since` keeps, for the statement of the properties,
\* the units whose guard patched the partition after the snapshot was taken.
Unfinished(u) == running[u].pc \notin {"idle", "done"}

\* the stop event of unit u begins: the guard reads the partition
\* (unit u has no tearing-down marker)
GuardRead(u) ==
    /\ pod[u] = "up" /\ ~Unfinished(u)
    /\ u < replicas /\ ~tearingDown[u]
    /\ running' = [running EXCEPT ![u] =
                      [Idle EXCEPT !.pc = "guard_read", !.kind = "stop", !.seen = partition]]

\* the rolling update deletes the pod of unit u: its stop event begins
RollingStopBegins(u) ==
    /\ RollingUpdateTarget(u)
    /\ GuardRead(u)
    /\ UNCHANGED << partition, appRev, currentRev, revBundle, pod, podRev, replicas,
                    leader, config, dbPause, dbNext, dbStarted, appDb, localStarted,
                    tearingDown, restarts, configChanges, trusted, call >>

\* the pod of unit u is deleted for another reason: its stop event begins
PodDeletedBegins(u) ==
    /\ restarts < MaxRestarts
    /\ restarts' = restarts + 1
    /\ GuardRead(u)
    /\ UNCHANGED << partition, appRev, currentRev, revBundle, pod, podRev, replicas,
                    leader, config, dbPause, dbNext, dbStarted, appDb, localStarted,
                    tearingDown, configChanges, trusted, call >>

\* the guard patches the partition to the unit's number if the value it
\* read is lower
GuardWrite(u) ==
    /\ running[u].pc = "guard_read"
    /\ LET raise == running[u].seen < u
       IN  /\ partition' = IF raise THEN u ELSE partition
           /\ running' = [v \in Ordinals |->
                  IF v = u THEN [running[u] EXCEPT !.pc = "guard_done", !.raised = raise]
                  ELSE IF raise /\ running[v].pc \in {"snapshot", "partition_read"}
                  THEN [running[v] EXCEPT !.since = @ \cup {u}]
                  ELSE running[v]]
    /\ UNCHANGED << appRev, currentRev, revBundle, pod, podRev, replicas,
                    leader, config, dbPause, dbNext, dbStarted, appDb, localStarted,
                    tearingDown, restarts, configChanges, trusted, call >>

\* the end of unit u's event: Juju commits the relation writes of the event,
\* and the pod of a stopped unit goes away
Committed(u, writes) ==
    /\ dbPause' = [dbPause EXCEPT ![u] = writes.pause]
    /\ dbStarted' = [dbStarted EXCEPT ![u] = writes.started]
    /\ appDb' = writes.app
    /\ localStarted' = [localStarted EXCEPT ![u] = writes.local]
    /\ pod' = IF running'[u].kind = "stop" THEN [pod EXCEPT ![u] = "down"] ELSE pod

\* the invocation lists the StatefulSet and the pods and goes through
\* __init__ up to the point where _set_partition_and_app_status reads or
\* patches the partition.  On a unit that is not the leader, or when an
\* exception is raised, the event ends here.
Snapshot(u, ev, from, hookOK) ==
    /\ hookOK \/ MayRunChecks(u, ev)
    /\ \E o \in {Outcome(u, ev, hookOK, FALSE)} :
        /\ hookOK \/ o.start.hookCalled
        /\ LET writes == [ pause |-> o.dbPause[u], started |-> o.dbStarted[u],
                           app |-> o.appDb, local |-> o.localStarted ]
               goesOn == u = leader /\ o.raisedAt = "none"
           IN  /\ running' = [running EXCEPT ![u] =
                      [from EXCEPT !.pc = IF goesOn THEN "snapshot" ELSE "done",
                                   !.kind = ev.kind,
                                   !.in_progress = InProgress,
                                   !.target = o.first.target,
                                   !.writes = IF goesOn THEN writes ELSE << >>]]
               /\ IF goesOn
                  THEN UNCHANGED << dbPause, dbStarted, appDb, localStarted, pod >>
                  ELSE Committed(u, writes)
    /\ UNCHANGED << partition, appRev, currentRev, revBundle, podRev, replicas,
                    leader, config, dbNext, tearingDown, restarts, configChanges,
                    trusted, call >>

\* a Juju event other than stop begins on unit u
HookSnapshot(u, hookOK) ==
    /\ pod[u] = "up" /\ ~Unfinished(u)
    /\ Snapshot(u, [kind |-> "hook"], Idle, hookOK)

\* the stop event of unit u goes on after the guard
StopSnapshot(u, hookOK) ==
    /\ running[u].pc = "guard_done"
    /\ Snapshot(u, [kind |-> "stop"], running[u], hookOK)

\* the leader found a refresh in progress: it reads the partition
LeaderReadPartition(u) ==
    /\ running[u].pc = "snapshot" /\ running[u].in_progress
    /\ running' = [running EXCEPT ![u] = [@ EXCEPT !.pc = "partition_read",
                                                   !.seen = partition]]
    /\ UNCHANGED << partition, appRev, currentRev, revBundle, pod, podRev, replicas,
                    leader, config, dbPause, dbNext, dbStarted, appDb, localStarted,
                    tearingDown, restarts, configChanges, trusted, call >>

\* the leader found no refresh in progress: it patches the partition to 0
LeaderReset(u) ==
    /\ running[u].pc = "snapshot" /\ ~running[u].in_progress
    /\ partition' = AtRestPartition(partition)
    /\ running' = [running EXCEPT ![u] = [@ EXCEPT !.pc = "done"]]
    /\ Committed(u, running[u].writes)
    /\ UNCHANGED << appRev, currentRev, revBundle, podRev, replicas, leader, config,
                    dbNext, tearingDown, restarts, configChanges, trusted, call >>

\* the leader patches the partition if its target is below the value it read
LeaderLower(u) ==
    /\ running[u].pc = "partition_read"
    /\ partition' = IF LowerOnly(running[u].target, running[u].seen) < running[u].seen
                    THEN running[u].target ELSE partition
    /\ running' = [running EXCEPT ![u] = [@ EXCEPT !.pc = "done"]]
    /\ Committed(u, running[u].writes)
    /\ UNCHANGED << appRev, currentRev, revBundle, podRev, replicas, leader, config,
                    dbNext, tearingDown, restarts, configChanges, trusted, call >>

\* the pod of a stopped unit is re-created once its stop event has ended
PodRestart(u) ==
    /\ ~Unfinished(u)
    /\ PodStart(u)

NextConcurrent ==
    \/ \E b \in Bundles : FirstRefresh(b)
    \/ \E u \in Ordinals : RollingStopBegins(u)
    \/ \E u \in Ordinals : PodDeletedBegins(u)
    \/ \E u \in Ordinals : GuardWrite(u)
    \/ \E u \in Ordinals, hookOK \in BOOLEAN : StopSnapshot(u, hookOK)
    \/ \E u \in Ordinals, hookOK \in BOOLEAN : HookSnapshot(u, hookOK)
    \/ \E u \in Ordinals : LeaderReadPartition(u)
    \/ \E u \in Ordinals : LeaderReset(u)
    \/ \E u \in Ordinals : LeaderLower(u)
    \/ \E u \in Ordinals : PodRestart(u)

ConcurrentSpec == Init /\ [][NextConcurrent]_vars

\* unit k is being replaced: its stop event has patched or passed the guard
\* and its pod is not up again
BeingReplaced(k) ==
    /\ running[k].kind = "stop"
    /\ running[k].pc \in {"guard_done", "snapshot", "partition_read"}
       \/ (running[k].pc = "done" /\ pod[k] = "down")

\* this step is the leader's patch of the partition
LeaderWrites ==
    /\ running[leader].pc \in {"snapshot", "partition_read"}
    /\ running'[leader].pc = "done"

\* C38: a stop-event guard is not lost to a concurrent leader invocation: if
\* the stop event of unit k raised the partition to k after the leader took
\* its snapshot and before the leader writes the partition, the leader's
\* write (a lowering to its target, or the reset to 0) does not leave the
\* partition below k while unit k is being replaced.
C38_GuardNotLost ==
    [][\A k \in Ordinals :
          (LeaderWrites /\ k \in running[leader].since /\ BeingReplaced(k)')
              => partition' >= k]_vars

\* this step is the guard's patch by unit a while the stop event of unit b is
\* just past its own guard, and no third unit (the leader least of all) is
\* there to write the partition
SecondGuardWrite(a, b) ==
    /\ a # b
    /\ \A c \in Ordinals \ {a, b} : c # leader /\ ~Unfinished(c)
    /\ running[a].pc = "guard_read" /\ running'[a].pc = "guard_done"
    /\ running[b].pc = "guard_done" /\ running[b].kind = "stop"

Larger(a, b) == IF a > b THEN a ELSE b

Smaller(a, b) == IF a < b THEN a ELSE b

\* C39: the stop-event guard never decreases the partition: for any
\* interleaving of the stop events of two different units that are not
\* departing, each reading the partition and then writing its own number,
\* the partition after both guards is at least the larger of the two
\* numbers and at least its value before them.
C39_GuardsNeverDecrease ==
    [][\A a \in Ordinals, b \in Ordinals :
          SecondGuardWrite(a, b) =>
              /\ partition' >= Larger(a, b)
              /\ partition' >= Smaller(running[a].seen, running[b].seen)]_vars

====
